---- MODULE Spec2Model ----
(***************************************************************************)
(* A model of the SYN-C runtime (src/local_beat_the_plan/src/sync) and of   *)
(* the host that runs it (src/local_beat_the_plan/src/referee):            *)
(* the flat memory with its read-only, global, stack and heap segments,    *)
(* the heap allocator, and the generator based tree-walking executor.      *)
(*                                                                         *)
(* The specifications share the execution state of SynCProgram:           *)
(*   SpecMem  the memory manager driven by any sequence of declarations,   *)
(*            calls, returns, allocations and frees;                       *)
(*   SpecRun  the executor running the programs of a bounded family, one   *)
(*            generator resumption at a time;                              *)
(*   SpecAcc  the load of a program followed by any sequence of memory     *)
(*            accesses of its main function;                               *)
(*   SpecLoad the load of the programs of a bounded family, then reads and *)
(*            assignments of variables by name;                            *)
(*   SpecHost referee.Player driving a program: the inputs it queues, and  *)
(*            get_output_line resuming the program one elementary          *)
(*            operation at a time;                                         *)
(*   SpecConv the conversions of converter_sync.py applied to any word and *)
(*            integer;                                                     *)
(*   SpecTwo  two SynCProgram instances advanced in any interleaving;      *)
(*   SpecArith the executor on one binary operation of two integer         *)
(*            literals, for every operator and every pair of words;        *)
(*   SpecGame Referee.play with BeatThePlanReferee: the turns of a match   *)
(*            and the end of its players.                                  *)
(***************************************************************************)
EXTENDS Integers, Sequences, FiniteSets, TLC

VARIABLES
    read_write_stack_limit,  \* SynCProgram.read_write_stack_limit (R)
    global_variables,        \* SynCProgram.global_variables: names, in order
    local_variables,         \* SynCProgram.local_variables: one name list per frame
    memory_heap,             \* SynCProgram.memory_heap: <<address, size>>, descending
    memory,                  \* SynCProgram.memory: address -> stored value
    err,                     \* the exception that ended the run, or "none"
    ret,                     \* the last memory-manager call: operation, argument, result
    functions_infos,         \* SynCProgram.functions_infos: the functions of the program
    gens,                    \* the chain of live generators, outermost first
    sig,                     \* the transfer of control between two generators
    nb_elementary_operations,\* SynCProgram.nb_elementary_operations
    log,                     \* history: the ids of the statements started, in order
    ast,                     \* the syntax tree handed to SynCProgram(tree)
    read_only_strings_adress,\* SynCProgram.read_only_strings_adress: string -> address
    input_buffer,            \* SynCProgram.input_buffer: characters read, not yet used
    player,                  \* referee.Player: the host's side of one program
    stdout,                  \* sys.stdout: the characters printed outside a Player
    other,                   \* a second SynCProgram, idle while the first is advanced
    game                     \* a match of BeatThePlanReferee: Referee.play and its players

mvars == <<read_write_stack_limit, global_variables, local_variables,
           memory_heap, memory, err, ret>>

hvars == <<input_buffer, player, stdout, other, game>>

lvars == <<ast, read_only_strings_adress, hvars>>

rvars == <<functions_infos, gens, sig, nb_elementary_operations, log, lvars>>

vars == <<mvars, rvars>>

(***************************************************************************)
(* Bounds of the model.                                                    *)
(***************************************************************************)
\* The size of the address space (2^24 in converter_sync.py), scaled down.
MEMORY_SIZE == 6
\* The largest number of global variables of a program.
MaxGlobals == 2
\* The deepest stack of frames.
MaxDepth == 2
\* The largest size asked of MALLOC.
MaxSize == 3
\* The width of a word (32 in converter_sync.py), scaled down.
INT_NB_BITS == 4
\* The elementary operations the host lets a program run.
MaxOps == 400
\* The deepest nesting of IF around a BREAK inside its loop.
MaxIfDepth == 3
\* The deepest nesting of IF, FOR and WHILE around a RETURN.
MaxNest == 2
\* The most iterations of the FOR loops whose steps are counted.
MaxIterations == 3
\* The conditions of the longest IF ... ELIF chain of the chain programs.
MaxConditions == 3
\* The width of a character (7 in converter_sync.py), scaled down.
CHAR_NB_BITS == 3

NULL_ADDRESS == 0

(***************************************************************************)
(* Values.  A Python value in flight or in a memory cell: None, a word, or *)
(* one of the control objects 'BREAK', 'CONTINUE', ('RETURN', v).          *)
(***************************************************************************)
None == [t |-> "None", w |-> 0, r |-> ""]
W(n) == [t |-> "word", w |-> n, r |-> ""]

\* The names a function body may assign, the parameter lists of the declared
\* functions, the global names, and the sizes of the declared structures.
LocalNames == {"a", "b"}
GlobalNames == <<"g1", "g2", "g3", "g4">>
ParameterLists == {<<>>, <<"p">>}
StructSizes == {1, 2}
\* The read-only boundaries R a load may leave: no static string, or one empty string.
ReadOnlyLimits == {1, 2}
\* The word SpecMem's programs store: x = 0, f(0), MALLOC(size, 0).
Lit == W(0)

RECURSIVE SumLen(_)
SumLen(lv) ==
    IF lv = <<>> THEN 0 ELSE Len(Head(lv)) + SumLen(Tail(lv))

InSeq(x, s) == \E i \in 1..Len(s) : s[i] = x

IndexOf(x, s) == CHOOSE i \in 1..Len(s) : s[i] = x /\ \A j \in 1..(i-1) : s[j] # x

(***************************************************************************)
(* SynCProgram._check_memory_limit_exceeded.  address is <<>> for None.    *)
(***************************************************************************)
_check_memory_limit_exceeded(lv, heap, rwsl, address) ==
    LET local_variable_last_address == rwsl + SumLen(lv)
        a == IF address # <<>> THEN address[1]
             ELSE IF Len(heap) = 0 THEN MEMORY_SIZE
             ELSE heap[Len(heap)][1]
    IN  local_variable_last_address < a

(***************************************************************************)
(* SynCProgram._malloc: the result is [err, address, heap].                *)
(***************************************************************************)
\* list.insert(i, x), and an insertion that always appends.
Mut_insert_last(s, i, x) == Append(s, x)

InsertAt(s, i, x) == SubSeq(s, 1, i - 1) \o <<x>> \o SubSeq(s, i, Len(s))

RemoveAt(s, i) == SubSeq(s, 1, i - 1) \o SubSeq(s, i + 1, Len(s))

previous_address(heap, i) == IF i = 1 THEN MEMORY_SIZE ELSE heap[i - 1][1]

GapFits(heap, i, size) ==
    heap[i][1] + heap[i][2] + size < previous_address(heap, i)

\* The place _malloc picks (its scan of the reserved blocks), before the check
\* against the stack: [address, index_in_heap].
malloc_place(size, heap) ==
    LET found == {i \in 1..Len(heap) : GapFits(heap, i, size)}
        first == CHOOSE i \in found : \A j \in found : i <= j
    IN  IF Len(heap) = 0
        THEN [address |-> MEMORY_SIZE - size, index_in_heap |-> 1]
        ELSE IF found # {}
        THEN [address |-> heap[first][1] + heap[first][2], index_in_heap |-> first]
        ELSE [address |-> heap[Len(heap)][1] - size, index_in_heap |-> Len(heap) + 1]

_malloc(size, heap, lv, rwsl) ==
    IF size <= 0 THEN [err |-> "MallocNegativeSizeError", address |-> 0, heap |-> heap]
    ELSE
      LET pl == malloc_place(size, heap)
      IN  IF ~ _check_memory_limit_exceeded(lv, heap, rwsl, <<pl.address>>)
          THEN [err |-> "none", address |-> NULL_ADDRESS, heap |-> heap]
          ELSE [err |-> "none", address |-> pl.address,
                heap |-> InsertAt(heap, pl.index_in_heap, <<pl.address, size>>)]

(***************************************************************************)
(* SynCProgram._free: the result is [err, heap].                           *)
(***************************************************************************)
Mut_free_any_word(pointer, heap) ==
    LET hit == {i \in 1..Len(heap) :
                    heap[i][1] <= pointer /\ pointer < heap[i][1] + heap[i][2]}
        i == CHOOSE k \in hit : \A j \in hit : k <= j
    IN  IF hit = {} THEN [err |-> "FreeNotAllocatedPointer", heap |-> heap]
        ELSE [err |-> "none", heap |-> RemoveAt(heap, i)]

_free(pointer, heap) ==
    LET hit == {i \in 1..Len(heap) : heap[i][1] = pointer}
        i == CHOOSE k \in hit : \A j \in hit : k <= j
    IN  IF hit = {} THEN [err |-> "FreeNotAllocatedPointer", heap |-> heap]
        ELSE [err |-> "none", heap |-> RemoveAt(heap, i)]

(***************************************************************************)
(* SynCProgram._get_variable_address: [err, address].                      *)
(***************************************************************************)
\* Addresses counted from the start of the stack in every frame.
Mut_address_without_frames(variable_name, gv, lv, rwsl) ==
    IF InSeq(variable_name, gv)
    THEN [err |-> "none", address |-> rwsl + (IndexOf(variable_name, gv) - 1)]
    ELSE IF InSeq(variable_name, lv[Len(lv)])
    THEN [err |-> "none",
          address |-> rwsl + Len(gv) + (IndexOf(variable_name, lv[Len(lv)]) - 1)]
    ELSE [err |-> "UndeclaredVariableError", address |-> 0]

_get_variable_address(variable_name, gv, lv, rwsl) ==
    IF InSeq(variable_name, gv)
    THEN [err |-> "none", address |-> rwsl + (IndexOf(variable_name, gv) - 1)]
    ELSE IF InSeq(variable_name, lv[Len(lv)])
    THEN [err |-> "none",
          address |-> rwsl + Len(gv) + SumLen(SubSeq(lv, 1, Len(lv) - 1))
                      + (IndexOf(variable_name, lv[Len(lv)]) - 1)]
    ELSE [err |-> "UndeclaredVariableError", address |-> 0]

(***************************************************************************)
(* SynCProgram._set_memory: [err, memory].                                 *)
(***************************************************************************)
Mut_set_memory_below_limit(mem, address, value, rwsl) ==
    IF address <= 0 \/ address >= MEMORY_SIZE
    THEN [err |-> "MemoryAccessError", memory |-> mem]
    ELSE [err |-> "none", memory |-> [mem EXCEPT ![address] = value]]

_set_memory(mem, address, value, rwsl) ==
    IF address <= 0 \/ address >= MEMORY_SIZE
    THEN [err |-> "MemoryAccessError", memory |-> mem]
    ELSE IF address < rwsl
    THEN [err |-> "ReadOnlyMemoryWriteError", memory |-> mem]
    ELSE [err |-> "none", memory |-> [mem EXCEPT ![address] = value]]

\* converter_sync.bin_to_pointer: a word of 2^24 or more is no pointer.
bin_to_pointer(x) ==
    IF x < MEMORY_SIZE THEN [err |-> "none", v |-> x]
    ELSE [err |-> "WrongPointerCodeError", v |-> 0]

\* Writing the words of ws at address, address + 1, ...: the loops of
\* execute_function (parameters) and of MALLOC (initial values), which stop
\* at the first write that raises.
RECURSIVE WriteAll(_, _, _, _)
WriteAll(mem, address, ws, rwsl) ==
    IF ws = <<>> THEN [err |-> "none", memory |-> mem]
    ELSE LET w1 == _set_memory(mem, address, Head(ws), rwsl)
         IN  IF w1.err # "none" THEN w1
             ELSE WriteAll(w1.memory, address + 1, Tail(ws), rwsl)

(***************************************************************************)
(* The declaration of a local by a plain assignment (_execute_affect) and  *)
(* by a FOR (_execute_forexpr): [err, lv].                                 *)
(***************************************************************************)
Mut_declare_at_each_assignment(variable, gv, lv, heap, rwsl) ==
    IF ~ InSeq(variable, gv)
    THEN [err |-> "none", lv |-> [lv EXCEPT ![Len(lv)] = Append(@, variable)]]
    ELSE [err |-> "none", lv |-> lv]

DeclareAffect(variable, gv, lv, heap, rwsl) ==
    IF ~ InSeq(variable, gv) /\ ~ InSeq(variable, lv[Len(lv)])
    THEN LET lv2 == [lv EXCEPT ![Len(lv)] = Append(@, variable)]
         IN  IF ~ _check_memory_limit_exceeded(lv2, heap, rwsl, <<>>)
             THEN [err |-> "MemoryExceededError", lv |-> lv2]
             ELSE [err |-> "none", lv |-> lv2]
    ELSE [err |-> "none", lv |-> lv]

\* A FOR that declares its loop variable each time it is entered.
Mut_for_declares_again(variable, gv, lv) ==
    [lv EXCEPT ![Len(lv)] = Append(@, variable)]

DeclareFor(variable, gv, lv) ==
    IF ~ InSeq(variable, gv) /\ ~ InSeq(variable, lv[Len(lv)])
    THEN [lv EXCEPT ![Len(lv)] = Append(@, variable)]
    ELSE lv

\* The push of a frame by execute_function: [err, lv].  With no parameter the
\* raise evaluates parameters[-1], which is itself an IndexError.
PushFrame(parameters, lv, heap, rwsl) ==
    LET lv2 == Append(lv, parameters)
    IN  IF ~ _check_memory_limit_exceeded(lv2, heap, rwsl, <<>>)
        THEN [err |-> IF parameters = <<>> THEN "IndexError" ELSE "MemoryExceededError",
              lv |-> lv2]
        ELSE [err |-> "none", lv |-> lv2]

(***************************************************************************)
(* SpecMem: the memory manager under any sequence of operations.           *)
(***************************************************************************)
NoRet == [op |-> "none", arg |-> 0, res |-> 0]

NoSig == [d |-> "end", at |-> 0, el |-> FALSE, val |-> None]

\* What get_output_line gave its caller: nothing yet, None, a line, or the
\* exception it let through.
Returned(how, value) == [how |-> how, value |-> value]

\* Player.__init__; pc, timeout, iteration and result_out belong to the call
\* of get_output_line in progress, returned to the last one that ended, and
\* calls counts the calls of get_output_line.
NewPlayer ==
    [_stdin_of_this_turn |-> <<>>, _stdout_of_this_turn |-> <<>>,
     _stderr_of_this_turn |-> <<>>, _game_infos_of_this_turn |-> <<>>,
     _ended |-> FALSE, _loose |-> FALSE, _score |-> 0, first_time_out |-> TRUE,
     pc |-> "idle", timeout |-> 0, iteration |-> 0, result_out |-> <<>>,
     returned |-> Returned("nothing", <<>>), calls |-> 0]

\* No host: the program is run without a Player.
\* No second program.
NoProgram == [id |-> 0]

\* No match.
NoGame == [pc |-> "none"]

NoHost ==
    /\ input_buffer = <<>>
    /\ player = NewPlayer
    /\ stdout = <<>>
    /\ other = NoProgram
    /\ game = NoGame

InitMem ==
    /\ read_write_stack_limit \in ReadOnlyLimits
    /\ \E g \in 0..MaxGlobals : global_variables = SubSeq(GlobalNames, 1, g)
    /\ local_variables = << <<>> >>
    /\ memory_heap = <<>>
    /\ memory = [a \in 1..(MEMORY_SIZE - 1) |-> W(0)]
    /\ err = "none"
    /\ ret = NoRet
    /\ functions_infos = <<>>
    /\ gens = <<>>
    /\ sig = NoSig
    /\ nb_elementary_operations = 0
    /\ log = <<>>
    /\ ast = <<>>
    /\ read_only_strings_adress = <<>>
    /\ NoHost

\* x = 0 in the current frame: _execute_affect.
MemAffect(variable) ==
    /\ err = "none"
    /\ LET d == DeclareAffect(variable, global_variables, local_variables,
                              memory_heap, read_write_stack_limit)
           a == _get_variable_address(variable, global_variables, d.lv,
                                      read_write_stack_limit)
           w == _set_memory(memory, a.address, Lit, read_write_stack_limit)
       IN  /\ local_variables' = d.lv
           /\ err' = IF d.err # "none" THEN d.err ELSE w.err
           /\ memory' = IF d.err # "none" THEN memory ELSE w.memory
           /\ ret' = [op |-> "affect", arg |-> 0, res |-> 0]
    /\ UNCHANGED <<read_write_stack_limit, global_variables, memory_heap, rvars>>

\* FOR(variable; 0; ...) in the current frame: the declaration and the
\* initialisation of the loop variable by _execute_forexpr.
MemFor(variable) ==
    /\ err = "none"
    /\ LET lv2 == DeclareFor(variable, global_variables, local_variables)
           a == _get_variable_address(variable, global_variables, lv2,
                                      read_write_stack_limit)
           w == _set_memory(memory, a.address, Lit, read_write_stack_limit)
       IN  /\ local_variables' = lv2
           /\ err' = w.err
           /\ memory' = w.memory
           /\ ret' = [op |-> "for", arg |-> 0, res |-> 0]
    /\ UNCHANGED <<read_write_stack_limit, global_variables, memory_heap, rvars>>

\* The entry of execute_function: the frame push and the parameter writes.
MemCall(parameters) ==
    /\ err = "none"
    /\ Len(local_variables) < MaxDepth
    /\ LET p == PushFrame(parameters, local_variables, memory_heap,
                          read_write_stack_limit)
           a == _get_variable_address(parameters[1], global_variables, p.lv,
                                      read_write_stack_limit)
           w == WriteAll(memory, a.address, [i \in 1..Len(parameters) |-> Lit],
                         read_write_stack_limit)
       IN  /\ local_variables' = p.lv
           /\ err' = IF p.err # "none" THEN p.err
                     ELSE IF parameters = <<>> THEN "none" ELSE w.err
           /\ memory' = IF p.err # "none" \/ parameters = <<>> THEN memory
                        ELSE w.memory
           /\ ret' = [op |-> "call", arg |-> Len(parameters), res |-> 0]
    /\ UNCHANGED <<read_write_stack_limit, global_variables, memory_heap, rvars>>

\* The exit of execute_function: del self.local_variables[-1].
MemReturn ==
    /\ err = "none"
    /\ Len(local_variables) > 1
    /\ local_variables' = SubSeq(local_variables, 1, Len(local_variables) - 1)
    /\ ret' = [op |-> "return", arg |-> 0, res |-> 0]
    /\ UNCHANGED <<read_write_stack_limit, global_variables, memory_heap, memory, err, rvars>>

\* MALLOC(size, 0, ..., 0) with n initial values: _execute_call.
MemMalloc(size, n) ==
    /\ err = "none"
    /\ LET m == _malloc(size, memory_heap, local_variables, read_write_stack_limit)
           w == WriteAll(memory, m.address, [i \in 1..n |-> Lit],
                         read_write_stack_limit)
       IN  /\ memory_heap' = m.heap
           /\ err' = IF m.err # "none" THEN m.err ELSE w.err
           /\ memory' = IF m.err # "none" THEN memory ELSE w.memory
           /\ ret' = [op |-> "MALLOC", arg |-> size, res |-> m.address]
    /\ UNCHANGED <<read_write_stack_limit, global_variables, local_variables, rvars>>

\* MALLOC_STRUCT(s) for a structure of size fields: _execute_call.
MemMallocStruct(size) ==
    /\ err = "none"
    /\ LET m == _malloc(size, memory_heap, local_variables, read_write_stack_limit)
       IN  /\ memory_heap' = m.heap
           /\ err' = m.err
           /\ ret' = [op |-> "MALLOC_STRUCT", arg |-> size, res |-> m.address]
    /\ UNCHANGED <<read_write_stack_limit, global_variables, local_variables, memory, rvars>>

\* FREE(x) for a word x: _execute_call.
MemFree(x) ==
    /\ err = "none"
    /\ LET p == bin_to_pointer(x)
           f == _free(p.v, memory_heap)
       IN  /\ memory_heap' = IF p.err # "none" THEN memory_heap ELSE f.heap
           /\ err' = IF p.err # "none" THEN p.err ELSE f.err
           /\ ret' = [op |-> "FREE", arg |-> x, res |-> 0]
    /\ UNCHANGED <<read_write_stack_limit, global_variables, local_variables, memory, rvars>>

NextMem ==
    \/ \E v \in LocalNames : MemAffect(v)
    \/ \E v \in LocalNames : MemFor(v)
    \/ \E ps \in ParameterLists : MemCall(ps)
    \/ MemReturn
    \/ \E size \in 0..MaxSize, n \in 0..1 : MemMalloc(size, n)
    \/ \E size \in StructSizes : MemMallocStruct(size)
    \/ \E x \in 0..MEMORY_SIZE : MemFree(x)

SpecMem == InitMem /\ [][NextMem]_vars

(***************************************************************************)
(* SpecRun: the executor.  A value travelling in a yield is None, a word,  *)
(* the string 'BREAK', the string 'CONTINUE' or the tuple ('RETURN', v).   *)
(***************************************************************************)
BREAK == [t |-> "BREAK", w |-> 0, r |-> ""]

CONTINUE == [t |-> "CONTINUE", w |-> 0, r |-> ""]

RETURN(v) == [t |-> "RETURN", w |-> v.w, r |-> v.t]

\* value[1] of a ('RETURN', v) tuple.
Payload(v) == [t |-> v.r, w |-> v.w, r |-> ""]

\* 2**n
RECURSIVE Pow2(_)
Pow2(n) == IF n = 0 THEN 1 ELSE 2 * Pow2(n - 1)

\* converter_sync.bin_to_int and int_to_bin (without overflow): two's complement.
\* A bin_to_int that takes 2^(w-1) for a positive integer.
Mut_bin_to_int_sign(x) == IF x <= Pow2(INT_NB_BITS - 1) THEN x ELSE x - Pow2(INT_NB_BITS)

bin_to_int(x) == IF x < Pow2(INT_NB_BITS - 1) THEN x ELSE x - Pow2(INT_NB_BITS)

int_to_bin(x) == IF x < 0 THEN x + Pow2(INT_NB_BITS) ELSE x

\* int_to_bin(x, overflow=True): x is first brought under 2^(w-1).
RECURSIVE Overflow(_)
\* An int_to_bin that ignores overflow=True.
Mut_overflow_ignored(x) == x

Overflow(x) ==
    IF x >= Pow2(INT_NB_BITS - 1) THEN Overflow(x - Pow2(INT_NB_BITS))
    ELSE IF x < - Pow2(INT_NB_BITS) THEN Overflow(x + Pow2(INT_NB_BITS))
    ELSE x

\* An int_to_bin(x, overflow=True) that saturates instead of wrapping.
Mut_int_to_bin_saturates(x) ==
    int_to_bin(IF x >= Pow2(INT_NB_BITS - 1) THEN Pow2(INT_NB_BITS - 1) - 1
               ELSE IF x < - Pow2(INT_NB_BITS - 1) THEN - Pow2(INT_NB_BITS - 1)
               ELSE x)

int_to_bin_overflow(x) == int_to_bin(Overflow(x))

\* converter_sync.bool_to_bin
bool_to_bin(x) == IF x THEN 1 ELSE 0

\* chr(x): the character of code point x.
chr(x) == [codepoint |-> x]

\* converter_sync.bin_to_char: [err, v].
bin_to_char(x) ==
    IF x <= Pow2(CHAR_NB_BITS) THEN [err |-> "none", v |-> chr(x)]
    ELSE [err |-> "WrongCharacterCodeError", v |-> chr(0)]

\* str(n) for an integer n: the codes of its characters.
RECURSIVE Digits(_)
Digits(n) == IF n < 10 THEN <<48 + n>> ELSE Digits(n \div 10) \o <<48 + (n % 10)>>

str(n) == IF n < 0 THEN <<45>> \o Digits(- n) ELSE Digits(n)

\* str(True) and str(False)
str_bool(b) == IF b THEN <<84, 114, 117, 101>> ELSE <<70, 97, 108, 115, 101>>

\* left // right and left % right of Python, right # 0: the quotient is
\* rounded down and the remainder takes the sign of right.
FloorDiv(left, right) ==
    IF right > 0 THEN left \div right ELSE (- left) \div (- right)

Modulo(left, right) == left - right * FloorDiv(left, right)

\* converter_sync.literal_to_bin
literal_to_bin(x) == IF x = "TRUE" THEN 1 ELSE 0

\* converter_sync.bin_to_bool on a value: [err, v].
bin_to_bool(x) ==
    IF x = W(1) THEN [err |-> "none", v |-> TRUE]
    ELSE IF x = W(0) THEN [err |-> "none", v |-> FALSE]
    ELSE [err |-> "WrongBooleanCodeError", v |-> FALSE]

\* SynCProgram._get_memory: [err, v].
_get_memory(mem, address) ==
    IF address <= 0 \/ address >= MEMORY_SIZE
    THEN [err |-> "MemoryAccessError", v |-> None]
    ELSE [err |-> "none", v |-> mem[address]]

(***************************************************************************)
(* The syntax tree (grammar_sync.py).  A node is [k, lit, name, v, kids]:  *)
(* k is the rule, name the identifier it carries (variable or function),   *)
(* v an integer literal or the number of the statement, kids its children  *)
(* in the order of SYNC_AST_CHILDREN_INDEXES.                              *)
(***************************************************************************)
Node(k, lit, name, v, kids) ==
    [k |-> k, lit |-> lit, name |-> name, v |-> v, kids |-> kids]

Integer(n) == Node("atom", "integer", "", n, <<>>)

Kw(word) == Node("atom", "keyword", word, 0, <<>>)

Var(x) == Node("atom", "ident", x, 0, <<>>)

Affect(id, x, e) == Node("affect", "", x, id, <<e>>)

Call(id, f, args) == Node("call", "", f, id, args)

Break(id) == Node("breakrule", "", "", id, <<>>)

Continue(id) == Node("continuerule", "", "", id, <<>>)

Return(id, e) == Node("returnrule", "", "", id, <<e>>)

Block(stmts) == Node("block", "", "", 0, stmts)

\* IF(c1) b1 ELIF(c2) b2 ... [ELSE b] ENDIF: kids are c1, b1, c2, b2, ... [, b].
If(c, b) == Node("ifexpr", "", "", 0, <<c, b>>)

IfElse(c, b, b2) == Node("ifexpr", "", "", 0, <<c, b, b2>>)

IfElif(c, b, c2, b2) == Node("ifexpr", "", "", 0, <<c, b, c2, b2>>)

For(x, s, e, b) == Node("forexpr", "", x, 0, <<s, e, b>>)

\* The rules of the binary operators that are no AND nor OR, and L op R.
BinaryRules == {"multdivexpr", "moduloexpr", "addsubexpr", "cmpexpr", "eqexpr"}

RuleOf(operator) ==
    IF operator \in {"*", "/"} THEN "multdivexpr"
    ELSE IF operator = "%" THEN "moduloexpr"
    ELSE IF operator \in {"+", "-"} THEN "addsubexpr"
    ELSE IF operator \in {"<=", ">=", "<", ">"} THEN "cmpexpr"
    ELSE "eqexpr"

Op(l, operator, r) == Node(RuleOf(operator), "", operator, 0, <<l, r>>)

\* L AND R, L OR R.
BoolOp(l, operator, r) == Node("boolexpr", "", operator, 0, <<l, r>>)

While(c, b) == Node("whileexpr", "", "", 0, <<c, b>>)

\* grammar_sync._blockexpr: the statements a block accepts.  breakrule and
\* continuerule are alternatives of every block, that of a function included.
_blockexpr(node) ==
    node.k \in {"affect", "returnrule", "ifexpr", "whileexpr", "forexpr", "call",
                "continuerule", "breakrule"}

\* grammar_sync.block = Repeat(_blockexpr), applied down the tree.
RECURSIVE block(_)
block(node) ==
    /\ node.k = "block"
    /\ \A i \in 1..Len(node.kids) :
          LET s == node.kids[i]
          IN  /\ _blockexpr(s)
              /\ s.k = "ifexpr" =>
                    \A j \in 1..Len(s.kids) :
                        (j % 2 = 0 \/ j = Len(s.kids)) => block(s.kids[j])
              /\ s.k = "forexpr" => block(s.kids[3])
              /\ s.k = "whileexpr" => block(s.kids[2])

\* functions_infos: the functions of the program, [name, parameters, tree] each.
Function(name, parameters, stmts) ==
    [name |-> name, parameters |-> parameters, tree |-> Block(stmts)]

Declared(fi, name) == \E i \in 1..Len(fi) : fi[i].name = name

Info(fi, name) == fi[CHOOSE i \in 1..Len(fi) : fi[i].name = name]

(***************************************************************************)
(* A generator of execute_node or execute_function, suspended or running:  *)
(* its node, where it stands (pc), and its local Python variables.         *)
(***************************************************************************)
Gen(node, ps) ==
    [node |-> node,
     pc   |-> "start",
     i    |-> 0,          \* index of the child being run
     acc  |-> None,       \* binary_value, binary_condition, result
     recv |-> None,       \* the value of the yield being forwarded
     addr |-> 0,          \* address
     lo   |-> 0,          \* start_expr; condition
     hi   |-> 0,          \* end_expr
     ps   |-> ps,         \* binary_parameters; params; binary_left_value
     snap |-> <<>>,       \* history: the frames and the memory when the callee started
     ended |-> None]      \* history: the RETURN tuple that ended the callee

Sig(d, at, el, val) == [d |-> d, at |-> at, el |-> el, val |-> val]

\* The state the executor works on.
State ==
    [gens |-> gens, sig |-> sig, lv |-> local_variables, heap |-> memory_heap,
     mem |-> memory, err |-> err, log |-> log, ops |-> nb_elementary_operations,
     out |-> stdout]

\* A yield of generator k: control goes to the generator that iterates on it.
Yield(st, k, g, el, val) ==
    [st EXCEPT !.gens[k] = g, !.sig = Sig("up", k - 1, el, val)]

\* Generator k starts iterating on execute_node(node): whatever it iterated
\* on before is dropped.
Iterate(st, k, g, node) ==
    [st EXCEPT !.gens = SubSeq(@, 1, k - 1) \o <<g, Gen(node, <<>>)>>,
               !.sig = Sig("run", k + 1, FALSE, None)]

\* Generator k asks its child for the next item.
Next_(st, k, g) ==
    [st EXCEPT !.gens[k] = g, !.sig = Sig("down", k + 1, FALSE, None)]

\* Generator k returns: StopIteration reaches the generator iterating on it.
\* val keeps the RETURN tuple that ended an execute_function, if any.
Stop(st, k, val) ==
    [st EXCEPT !.gens = SubSeq(@, 1, k - 1), !.sig = Sig("fin", k - 1, FALSE, val)]

Raise(st, e) == [st EXCEPT !.err = e]

\* The statement numbers, in the order the statements start.
Logged(st, node) ==
    IF node.v > 0 THEN [st EXCEPT !.log = Append(@, node.v)] ELSE st

\* The loop every handler runs on a sub-expression:
\*     for elementary, value, ... in self.execute_node(expr):
\*         yield elementary, None, ...
\*         if value is not None: binary_value = value
\* cut at its yield.
ForwardNone(st, k, g) ==
    Yield(st, k, [g EXCEPT !.recv = st.sig.val], st.sig.el, None)

Capture(st, k, g) ==
    Next_(st, k, IF g.recv # None THEN [g EXCEPT !.acc = g.recv] ELSE g)

(***************************************************************************)
(* The handlers of execute_node.  Each takes the state with control at     *)
(* generator k = st.sig.at and gives the state at its next transfer of     *)
(* control: "run" it starts, "up" its child yielded, "down" it is resumed  *)
(* at its own yield, "fin" its child returned.                             *)
(***************************************************************************)
_execute_atom(st) ==
    LET k == st.sig.at
        g == st.gens[k]
        n == g.node
        a == _get_variable_address(n.name, global_variables, st.lv, read_write_stack_limit)
        m == _get_memory(st.mem, a.address)
        done == [g EXCEPT !.pc = "done"]
    IN  IF st.sig.d = "run"
        THEN IF n.lit = "ident"
             THEN IF a.err # "none" THEN Raise(st, a.err)
                  ELSE IF m.err # "none" THEN Raise(st, m.err)
                  ELSE Yield(st, k, done, FALSE, m.v)
             ELSE IF n.lit = "integer"
             THEN Yield(st, k, done, FALSE, W(int_to_bin(n.v)))
             ELSE Yield(st, k, done, FALSE, W(literal_to_bin(n.name)))
        ELSE Stop(st, k, None)

_execute_affect(st) ==
    LET k == st.sig.at
        g == st.gens[k]
        n == g.node
        dc == DeclareAffect(n.name, global_variables, st.lv, st.heap, read_write_stack_limit)
        st1 == [st EXCEPT !.lv = dc.lv]
        a == _get_variable_address(n.name, global_variables, dc.lv, read_write_stack_limit)
        w == _set_memory(st.mem, g.addr, g.acc, read_write_stack_limit)
    IN  IF st.sig.d = "run"
        THEN IF dc.err # "none" THEN Raise(st1, dc.err)
             ELSE Iterate(Logged(st1, n), k,
                          [g EXCEPT !.pc = "expr", !.addr = a.address], n.kids[1])
        ELSE IF st.sig.d = "up" THEN ForwardNone(st, k, g)
        ELSE IF st.sig.d = "down" /\ g.pc = "expr" THEN Capture(st, k, g)
        ELSE IF st.sig.d = "fin"
        THEN IF w.err # "none" THEN Raise(st, w.err)
             ELSE Yield([st EXCEPT !.mem = w.memory], k, [g EXCEPT !.pc = "done"], TRUE, None)
        ELSE Stop(st, k, None)

\* The result of L op R from the two binary values: [err, v].  bin_to_int of
\* a value that is no word is a TypeError of Python.
binary_result(operator, binary_left_value, binary_right_value) ==
    LET left_value == bin_to_int(binary_left_value.w)
        right_value == bin_to_int(binary_right_value.w)
        ok(x) == [err |-> "none", v |-> W(x)]
        fail(e) == [err |-> e, v |-> None]
    IN  IF operator \in {"+", "-", "/", "*", "%", "<=", ">=", "<", ">"}
        THEN IF binary_left_value.t # "word" \/ binary_right_value.t # "word"
             THEN fail("TypeError")
             ELSE CASE operator = "+" -> ok(int_to_bin_overflow(left_value + right_value))
                    [] operator = "-" -> ok(int_to_bin_overflow(left_value - right_value))
                    [] operator = "*" -> ok(int_to_bin_overflow(left_value * right_value))
                    [] operator = "/" ->
                          IF right_value = 0 THEN fail("MathDomainError")
                          ELSE ok(int_to_bin_overflow(FloorDiv(left_value, right_value)))
                    [] operator = "%" ->
                          IF right_value = 0 THEN fail("MathDomainError")
                          ELSE ok(int_to_bin_overflow(Modulo(left_value, right_value)))
                    [] operator = "<=" -> ok(bool_to_bin(left_value <= right_value))
                    [] operator = ">=" -> ok(bool_to_bin(left_value >= right_value))
                    [] operator = "<" -> ok(bool_to_bin(left_value < right_value))
                    [] operator = ">" -> ok(bool_to_bin(left_value > right_value))
        ELSE CASE operator = "==" -> ok(bool_to_bin(binary_left_value = binary_right_value))
               [] operator = "!=" -> ok(bool_to_bin(binary_left_value # binary_right_value))

\* L op R, op arithmetic or a comparison: the items of L, those of R, then
\* one elementary item with the result.
_execute_binaryoperator(st) ==
    LET k == st.sig.at
        g == st.gens[k]
        n == g.node
        d == st.sig.d
        result == binary_result(n.name, g.ps[1], g.acc)
    IN  IF d = "run"
        THEN Iterate(st, k, [g EXCEPT !.pc = "left"], n.kids[1])
        ELSE IF d = "up" THEN ForwardNone(st, k, g)
        ELSE IF d = "down" /\ g.pc \in {"left", "right"} THEN Capture(st, k, g)
        ELSE IF d = "fin"
        THEN IF g.pc = "left"
             THEN Iterate(st, k, [g EXCEPT !.pc = "right", !.ps = <<g.acc>>, !.acc = None],
                          n.kids[2])
             ELSE IF result.err # "none" THEN Raise(st, result.err)
             ELSE Yield(st, k, [g EXCEPT !.pc = "done"], TRUE, result.v)
        ELSE Stop(st, k, None)

\* An AND and an OR that always need their right operand.
Mut_no_shortcut(operator, left_value) == [known |-> FALSE, v |-> FALSE]

\* _execute_boolbinaryoperator once L is computed: the result when L settles
\* it (AND with L false, OR with L true), None else: [known, v].
bool_result(operator, left_value) ==
    IF operator = "AND" /\ ~left_value THEN [known |-> TRUE, v |-> FALSE]
    ELSE IF operator = "OR" /\ left_value THEN [known |-> TRUE, v |-> TRUE]
    ELSE [known |-> FALSE, v |-> FALSE]

\* L AND R, L OR R: the items of L, those of R when L does not settle the
\* result, then one elementary item with the result.  The result is a Python
\* boolean, which is the integer 1 or 0.
_execute_boolbinaryoperator(st) ==
    LET k == st.sig.at
        g == st.gens[k]
        n == g.node
        d == st.sig.d
        value == bin_to_bool(g.acc)
        result == bool_result(n.name, value.v)
    IN  IF d = "run"
        THEN Iterate(st, k, [g EXCEPT !.pc = "left"], n.kids[1])
        ELSE IF d = "up" THEN ForwardNone(st, k, g)
        ELSE IF d = "down" /\ g.pc \in {"left", "right"} THEN Capture(st, k, g)
        ELSE IF d = "fin"
        THEN IF value.err # "none" THEN Raise(st, value.err)
             ELSE IF g.pc = "left"
             THEN IF result.known
                  THEN Yield(st, k, [g EXCEPT !.pc = "done"], TRUE, W(bool_to_bin(result.v)))
                  ELSE Iterate(st, k, [g EXCEPT !.pc = "right", !.acc = None], n.kids[2])
             ELSE Yield(st, k, [g EXCEPT !.pc = "done"], TRUE, W(bool_to_bin(value.v)))
        ELSE Stop(st, k, None)

_execute_breakrule(st) ==
    LET k == st.sig.at
        g == st.gens[k]
    IN  IF st.sig.d = "run"
        THEN Yield(Logged(st, g.node), k, [g EXCEPT !.pc = "done"], FALSE, BREAK)
        ELSE Stop(st, k, None)

_execute_continuerule(st) ==
    LET k == st.sig.at
        g == st.gens[k]
    IN  IF st.sig.d = "run"
        THEN Yield(Logged(st, g.node), k, [g EXCEPT !.pc = "done"], FALSE, CONTINUE)
        ELSE Stop(st, k, None)

_execute_returnrule(st) ==
    LET k == st.sig.at
        g == st.gens[k]
        n == g.node
    IN  IF st.sig.d = "run"
        THEN Iterate(Logged(st, n), k, [g EXCEPT !.pc = "expr"], n.kids[1])
        ELSE IF st.sig.d = "up" THEN ForwardNone(st, k, g)
        ELSE IF st.sig.d = "down" /\ g.pc = "expr" THEN Capture(st, k, g)
        ELSE IF st.sig.d = "fin"
        THEN Yield(st, k, [g EXCEPT !.pc = "done"], FALSE, RETURN(g.acc))
        ELSE Stop(st, k, None)

_execute_block(st) ==
    LET k == st.sig.at
        g == st.gens[k]
        n == g.node
    IN  IF st.sig.d = "run"
        THEN IF Len(n.kids) = 0 THEN Stop(st, k, None)
             ELSE Iterate(st, k, [g EXCEPT !.pc = "stmt", !.i = 1], n.kids[1])
        ELSE IF st.sig.d = "up" THEN Yield(st, k, g, st.sig.el, st.sig.val)
        ELSE IF st.sig.d = "down" THEN Next_(st, k, g)
        ELSE IF g.i < Len(n.kids)
        THEN Iterate(st, k, [g EXCEPT !.i = g.i + 1], n.kids[g.i + 1])
        ELSE Stop(st, k, None)

\* An IF whose ELSE block is never run.
Mut_else_never_run(st, k, g) ==
    LET kids == g.node.kids
    IN  IF g.i <= Len(kids) \div 2
        THEN Iterate(st, k, [g EXCEPT !.pc = "cond", !.acc = None], kids[2 * g.i - 1])
        ELSE Stop(st, k, None)

\* The top of the while loop of _execute_ifexpr, at branch g.i.
IfBranch(st, k, g) ==
    LET kids == g.node.kids
    IN  IF g.i <= Len(kids) \div 2
        THEN Iterate(st, k, [g EXCEPT !.pc = "cond", !.acc = None], kids[2 * g.i - 1])
        ELSE IF Len(kids) % 2 = 1
        THEN Iterate(st, k, [g EXCEPT !.pc = "block"], kids[Len(kids)])
        ELSE Stop(st, k, None)

\* An IF that keeps the BREAK of its block for itself.
Mut_IfBlockItem(st, k, g) ==
    Yield(st, k, g, st.sig.el, IF st.sig.val = BREAK THEN None ELSE st.sig.val)

\* _execute_ifexpr on an item of the block it runs: yield elementary, value.
IfBlockItem(st, k, g) ==
    Yield(st, k, g, st.sig.el, st.sig.val)

_execute_ifexpr(st) ==
    LET k == st.sig.at
        g == st.gens[k]
        d == st.sig.d
        c == bin_to_bool(g.acc)
    IN  IF d = "run" THEN IfBranch(st, k, [g EXCEPT !.i = 1])
        ELSE IF d = "up"
        THEN IF g.pc = "cond" THEN ForwardNone(st, k, g)
             ELSE IfBlockItem(st, k, g)
        ELSE IF d = "fin"
        THEN IF g.pc = "cond" THEN Yield(st, k, [g EXCEPT !.pc = "condy"], TRUE, None)
             ELSE Stop(st, k, None)
        ELSE IF g.pc = "cond" THEN Capture(st, k, g)
        ELSE IF g.pc = "block" THEN Next_(st, k, g)
        ELSE IF c.err # "none" THEN Raise(st, c.err)
        ELSE IF c.v THEN Iterate(st, k, [g EXCEPT !.pc = "block"], g.node.kids[2 * g.i])
        ELSE IfBranch(st, k, [g EXCEPT !.i = g.i + 1])

\* A loop that takes a CONTINUE for a BREAK.
Mut_continue_as_break(st, k, g) ==
    IF st.sig.val \in {CONTINUE, BREAK}
    THEN Yield(st, k, [g EXCEPT !.pc = "brk"], st.sig.el, None)
    ELSE Yield(st, k, g, st.sig.el, st.sig.val)

\* A loop that takes a BREAK for a CONTINUE.
Mut_break_as_continue(st, k, g) ==
    IF st.sig.val \in {CONTINUE, BREAK}
    THEN Yield(st, k, [g EXCEPT !.pc = "cont"], st.sig.el, None)
    ELSE Yield(st, k, g, st.sig.el, st.sig.val)

\* What a loop does with an item of its body (FOR and WHILE alike).
LoopBody(st, k, g) ==
    IF st.sig.val = CONTINUE
    THEN Yield(st, k, [g EXCEPT !.pc = "cont"], st.sig.el, None)
    ELSE IF st.sig.val = BREAK
    THEN Yield(st, k, [g EXCEPT !.pc = "brk"], st.sig.el, None)
    ELSE Yield(st, k, g, st.sig.el, st.sig.val)

\* The test of the while of _execute_forexpr.
ForTest(st, k, g) ==
    LET m == _get_memory(st.mem, g.addr)
    IN  IF m.err # "none" THEN Raise(st, m.err)
        ELSE IF m.v.t # "word" THEN Raise(st, "TypeError")
        ELSE IF bin_to_int(m.v.w) < g.hi
        THEN Iterate(st, k, [g EXCEPT !.pc = "body"], g.node.kids[3])
        ELSE Stop(st, k, None)

\* An increment of the loop variable that is one elementary item.
Mut_increment_in_one_step(st, k, g) ==
    LET m == _get_memory(st.mem, g.addr)
        w == _set_memory(st.mem, g.addr, W(int_to_bin(bin_to_int(m.v.w) + 1)),
                         read_write_stack_limit)
    IN  Yield([st EXCEPT !.mem = w.memory, !.gens = SubSeq(@, 1, k)], k,
              [g EXCEPT !.pc = "y4"], TRUE, None)

\* The increment of the loop variable, and the first of its three yields.
ForIncrement(st, k, g) ==
    LET m == _get_memory(st.mem, g.addr)
        w == _set_memory(st.mem, g.addr, W(int_to_bin(bin_to_int(m.v.w) + 1)),
                         read_write_stack_limit)
    IN  IF m.err # "none" THEN Raise(st, m.err)
        ELSE IF m.v.t # "word" THEN Raise(st, "TypeError")
        ELSE IF w.err # "none" THEN Raise(st, w.err)
        ELSE Yield([st EXCEPT !.mem = w.memory, !.gens = SubSeq(@, 1, k)], k,
                   [g EXCEPT !.pc = "y3"], TRUE, None)

_execute_forexpr(st) ==
    LET k == st.sig.at
        g == st.gens[k]
        n == g.node
        d == st.sig.d
        lv2 == DeclareFor(n.name, global_variables, st.lv)
        a == _get_variable_address(n.name, global_variables, lv2, read_write_stack_limit)
        w == _set_memory(st.mem, g.addr, W(int_to_bin(g.lo)), read_write_stack_limit)
    IN  IF d = "run"
        THEN Iterate([st EXCEPT !.lv = lv2], k,
                     [g EXCEPT !.pc = "s", !.addr = a.address], n.kids[1])
        ELSE IF d = "up"
        THEN IF g.pc = "body" THEN LoopBody(st, k, g) ELSE ForwardNone(st, k, g)
        ELSE IF d = "fin"
        THEN IF g.pc = "body" THEN ForIncrement(st, k, g)
             ELSE IF g.acc.t # "word" THEN Raise(st, "TypeError")
             ELSE IF g.pc = "s"
             THEN Iterate(st, k, [g EXCEPT !.pc = "e", !.lo = bin_to_int(g.acc.w),
                                           !.acc = None], n.kids[2])
             ELSE IF w.err # "none" THEN Raise(st, w.err)
             ELSE Yield([st EXCEPT !.mem = w.memory], k,
                        [g EXCEPT !.pc = "y1", !.hi = bin_to_int(g.acc.w)], TRUE, None)
        ELSE IF g.pc \in {"s", "e"} THEN Capture(st, k, g)
        ELSE IF g.pc = "body" THEN Next_(st, k, g)
        ELSE IF g.pc = "brk" THEN Stop(st, k, None)
        ELSE IF g.pc = "cont" THEN ForIncrement(st, k, g)
        ELSE IF g.pc = "y1" THEN Yield(st, k, [g EXCEPT !.pc = "y2"], TRUE, None)
        ELSE IF g.pc = "y3" THEN Yield(st, k, [g EXCEPT !.pc = "y4"], TRUE, None)
        ELSE IF g.pc = "y4" THEN Yield(st, k, [g EXCEPT !.pc = "y2"], TRUE, None)
        ELSE ForTest(st, k, g)

\* The top of the while True of _execute_whileexpr.
WhileLoop(st, k, g) ==
    Iterate(st, k, [g EXCEPT !.pc = "cond", !.acc = None], g.node.kids[1])

_execute_whileexpr(st) ==
    LET k == st.sig.at
        g == st.gens[k]
        d == st.sig.d
        c == bin_to_bool(g.acc)
    IN  IF d = "run" THEN WhileLoop(st, k, g)
        ELSE IF d = "up"
        THEN IF g.pc = "body" THEN LoopBody(st, k, g)
             ELSE IF st.sig.el
             THEN Yield(st, k, [g EXCEPT !.recv = st.sig.val], TRUE, None)
             ELSE Next_(st, k, IF st.sig.val # None
                               THEN [g EXCEPT !.acc = st.sig.val] ELSE g)
        ELSE IF d = "fin"
        THEN IF g.pc = "body" THEN WhileLoop(st, k, g)
             ELSE IF c.err # "none" THEN Raise(st, c.err)
             ELSE Yield(st, k, [g EXCEPT !.pc = "condy", !.lo = IF c.v THEN 1 ELSE 0],
                        TRUE, None)
        ELSE IF g.pc = "cond" THEN Capture(st, k, g)
        ELSE IF g.pc = "body" THEN Next_(st, k, g)
        ELSE IF g.pc = "brk" THEN Stop(st, k, None)
        ELSE IF g.pc = "cont" THEN WhileLoop(st, k, g)
        ELSE IF g.lo = 1 THEN Iterate(st, k, [g EXCEPT !.pc = "body"], g.node.kids[2])
        ELSE Stop(st, k, None)

\* The initial values of MALLOC(size, v1, v2, ...), one write and one yield
\* each, then the yield of the result.
MallocInit(st, k, g) ==
    LET w == _set_memory(st.mem, g.addr + g.i - 1, g.ps[g.i + 1], read_write_stack_limit)
    IN  IF g.i < Len(g.ps)
        THEN IF w.err # "none" THEN Raise(st, w.err)
             ELSE Yield([st EXCEPT !.mem = w.memory], k,
                        [g EXCEPT !.pc = "init", !.i = g.i + 1], TRUE, None)
        ELSE Yield(st, k, [g EXCEPT !.pc = "done"], TRUE, W(int_to_bin(g.addr)))

\* The type keywords a call takes as they are, and such a parameter.
TypeKeywords == {"INT", "FLOAT", "CHAR", "BOOL", "STRING", "POINTER"}

Tag(word) == [t |-> word, w |-> 0, r |-> ""]

\* SynCProgram._get_string_from_address: [err, s], s the codes of the
\* characters read up to the NUL.
RECURSIVE _get_string_from_address(_, _, _)
_get_string_from_address(mem, address, s) ==
    LET m == _get_memory(mem, address)
        c == bin_to_char(m.v.w)
    IN  IF m.err # "none" THEN [err |-> m.err, s |-> s]
        ELSE IF m.v.t # "word" THEN [err |-> "TypeError", s |-> s]
        ELSE IF c.err # "none" THEN [err |-> c.err, s |-> s]
        ELSE IF c.v = chr(0) THEN [err |-> "none", s |-> s]
        ELSE _get_string_from_address(mem, address + 1, Append(s, c.v.codepoint))

\* What print(value, end='') writes for a binary parameter read as type:
\* [err, s].  No type stands for STRING.
printed_value(type, parameter, mem) ==
    LET p == bin_to_pointer(parameter.w)
        c == bin_to_char(parameter.w)
        b == bin_to_bool(parameter)
    IN  IF parameter.t # "word" /\ type # "BOOL" THEN [err |-> "TypeError", s |-> <<>>]
        ELSE CASE type \in {"", "STRING"} ->
                    IF p.err # "none" THEN [err |-> p.err, s |-> <<>>]
                    ELSE _get_string_from_address(mem, bin_to_int(p.v), <<>>)
               [] type = "INT" -> [err |-> "none", s |-> str(bin_to_int(parameter.w))]
               [] type = "CHAR" -> [err |-> c.err, s |-> <<c.v.codepoint>>]
               [] type = "BOOL" -> [err |-> b.err, s |-> str_bool(b.v)]
               [] type = "POINTER" ->
                    [err |-> p.err, s |-> IF p.err = "none" THEN str(bin_to_int(p.v)) ELSE <<>>]

\* The loop of PRINT on binary_parameters: [err, out], out what sys.stdout
\* holds when the loop ends or raises.
RECURSIVE print_loop(_, _, _, _)
print_loop(binary_parameters, type, out, mem) ==
    LET parameter == Head(binary_parameters)
        parameter_is_type == parameter.t \in TypeKeywords
        v == printed_value(type, parameter, mem)
    IN  IF binary_parameters = <<>> THEN [err |-> "none", out |-> out]
        ELSE IF type # "" /\ parameter_is_type
        THEN [err |-> "InvalidTypeParameterInFunctionError", out |-> out]
        ELSE IF parameter_is_type
        THEN print_loop(Tail(binary_parameters), parameter.t, out, mem)
        ELSE IF v.err # "none" THEN [err |-> v.err, out |-> out]
        ELSE print_loop(Tail(binary_parameters), "", out \o v.s, mem)

\* _execute_call once binary_parameters is complete.
CallApply(st, k, g) ==
    LET function_name == g.node.name
        m == _malloc(bin_to_int(g.ps[1].w), st.heap, st.lv, read_write_stack_limit)
        p == bin_to_pointer(g.ps[1].w)
        f == _free(p.v, st.heap)
        pr == print_loop(g.ps, "", st.out, st.mem)
    IN  IF function_name = "MALLOC"
        THEN IF g.ps[1].t # "word" THEN Raise(st, "TypeError")
             ELSE IF m.err # "none" THEN Raise(st, m.err)
             ELSE MallocInit([st EXCEPT !.heap = m.heap], k,
                             [g EXCEPT !.addr = m.address, !.i = 1])
        ELSE IF function_name = "FREE"
        THEN IF g.ps[1].t # "word" THEN Raise(st, "TypeError")
             ELSE IF p.err # "none" THEN Raise(st, p.err)
             ELSE IF f.err # "none" THEN Raise(st, f.err)
             ELSE Yield([st EXCEPT !.heap = f.heap], k, [g EXCEPT !.pc = "done"],
                        TRUE, W(int_to_bin(0)))
        ELSE IF function_name = "PRINT"
        THEN IF pr.err # "none" THEN Raise([st EXCEPT !.out = pr.out], pr.err)
             ELSE Yield([st EXCEPT !.out = pr.out], k, [g EXCEPT !.pc = "done"],
                        TRUE, W(int_to_bin(0)))
        ELSE IF function_name = "ELEMENTARY_OPERATIONS"
        THEN IF g.ps[1] = Tag("INT")
             THEN Yield(st, k, [g EXCEPT !.pc = "done"], TRUE,
                        W(int_to_bin_overflow(st.ops)))
             ELSE Raise(st, "ExecutionError")
        ELSE [st EXCEPT
                !.gens = SubSeq(@, 1, k - 1) \o
                         << [g EXCEPT !.pc = "fn", !.acc = W(int_to_bin(0)),
                                      !.snap = <<st.lv, st.mem>>],
                            Gen(Node("function", "", function_name, 0, <<>>), g.ps) >>,
                !.sig = Sig("run", k + 1, FALSE, None)]

\* The loop of _execute_call on its parameters, at parameter g.i: a type
\* keyword is appended as it is, any other parameter is executed.
RECURSIVE CallParameters(_, _, _)
CallParameters(st, k, g) ==
    IF g.i <= Len(g.node.kids)
    THEN IF g.node.kids[g.i].name \in TypeKeywords
         THEN CallParameters(st, k, [g EXCEPT !.ps = Append(@, Tag(g.node.kids[g.i].name)),
                                              !.i = g.i + 1])
         ELSE Iterate(st, k, [g EXCEPT !.pc = "args", !.acc = None], g.node.kids[g.i])
    ELSE CallApply(st, k, g)

_execute_call(st, fi) ==
    LET k == st.sig.at
        g == st.gens[k]
        n == g.node
        d == st.sig.d
        expected_nb_parameters ==
            IF n.name = "PRINT" THEN TRUE
            ELSE IF n.name = "MALLOC" THEN Len(n.kids) >= 1
            ELSE IF n.name \in {"FREE", "ELEMENTARY_OPERATIONS"} THEN Len(n.kids) = 1
            ELSE Len(n.kids) = Len(Info(fi, n.name).parameters)
    IN  IF d = "run"
        THEN IF n.name \notin {"PRINT", "MALLOC", "FREE", "ELEMENTARY_OPERATIONS"}
                /\ ~ Declared(fi, n.name)
             THEN Raise(st, "UndeclaredFunctionError")
             ELSE IF ~ expected_nb_parameters
             THEN Raise(st, "IncorrectNumberOfParametersInFunction")
             ELSE CallParameters(Logged(st, n), k, [g EXCEPT !.i = 1])
        ELSE IF d = "up" THEN ForwardNone(st, k, g)
        ELSE IF d = "fin"
        THEN IF g.pc = "args"
             THEN CallParameters(st, k, [g EXCEPT !.ps = Append(@, g.acc), !.i = g.i + 1])
             ELSE Yield(st, k, [g EXCEPT !.pc = "done", !.ended = st.sig.val], TRUE, g.acc)
        ELSE IF g.pc \in {"args", "fn"} THEN Capture(st, k, g)
        ELSE IF g.pc = "init" THEN MallocInit(st, k, g)
        ELSE Stop(st, k, None)

\* An execute_function that goes on iterating after a RETURN.
Mut_FunctionItem(st, k, g) ==
    IF st.sig.val.t = "RETURN"
    THEN Yield(st, k, g, st.sig.el, Payload(st.sig.val))
    ELSE Yield(st, k, g, st.sig.el, st.sig.val)

\* execute_function on an item of the body: a ('RETURN', v) tuple is yielded
\* as v and ends the iteration (pc "ret": the break comes at the resumption).
FunctionItem(st, k, g) ==
    IF st.sig.val.t = "RETURN"
    THEN Yield(st, k, [g EXCEPT !.pc = "ret", !.recv = st.sig.val],
               st.sig.el, Payload(st.sig.val))
    ELSE Yield(st, k, g, st.sig.el, st.sig.val)

\* An execute_function that ends without del self.local_variables[-1].
Mut_frame_kept(st) == st

\* del self.local_variables[-1]
PopFrame(st) == [st EXCEPT !.lv = SubSeq(@, 1, Len(@) - 1)]

\* execute_function: the generator of one call of a function of the program.
execute_function(st, fi) ==
    LET k == st.sig.at
        g == st.gens[k]
        d == st.sig.d
        parameters == Info(fi, g.node.name).parameters
        pf == PushFrame(parameters, st.lv, st.heap, read_write_stack_limit)
        address0 == _get_variable_address(parameters[1], global_variables, pf.lv,
                                          read_write_stack_limit).address
        w == IF Len(parameters) # 0
             THEN WriteAll(st.mem, address0, g.ps, read_write_stack_limit)
             ELSE [err |-> "none", memory |-> st.mem]
        popped == PopFrame(st)
    IN  IF d = "run"
        THEN IF pf.err # "none" THEN Raise([st EXCEPT !.lv = pf.lv], pf.err)
             ELSE IF w.err # "none" THEN Raise([st EXCEPT !.lv = pf.lv], w.err)
             ELSE Iterate([st EXCEPT !.lv = pf.lv, !.mem = w.memory], k,
                          [g EXCEPT !.pc = "body"], Info(fi, g.node.name).tree)
        ELSE IF d = "up" THEN FunctionItem(st, k, g)
        ELSE IF d = "fin" THEN Stop(popped, k, None)
        ELSE IF g.pc = "ret" THEN Stop(popped, k, g.recv)
        ELSE Next_(st, k, g)

\* type_to_function[node[0]]()
execute_node(st, fi) ==
    LET kd == st.gens[st.sig.at].node.k
    IN  CASE kd = "atom" -> _execute_atom(st)
          [] kd = "affect" -> _execute_affect(st)
          [] kd \in BinaryRules -> _execute_binaryoperator(st)
          [] kd = "call" -> _execute_call(st, fi)
          [] kd = "boolexpr" -> _execute_boolbinaryoperator(st)
          [] kd = "ifexpr" -> _execute_ifexpr(st)
          [] kd = "forexpr" -> _execute_forexpr(st)
          [] kd = "whileexpr" -> _execute_whileexpr(st)
          [] kd = "continuerule" -> _execute_continuerule(st)
          [] kd = "breakrule" -> _execute_breakrule(st)
          [] kd = "returnrule" -> _execute_returnrule(st)
          [] kd = "block" -> _execute_block(st)
          [] kd = "function" -> execute_function(st, fi)

(***************************************************************************)
(* The programs SpecRun loads.  Statement numbers: 1 the BREAK, CONTINUE   *)
(* or RETURN (or the bare call) under study, 2 a statement placed after it *)
(* in a block that encloses it, 3 the statement after the inner loop or    *)
(* after the call, 4 the statement after the outer loop, 5 the BREAK that  *)
(* ends an outer WHILE(TRUE).                                              *)
(***************************************************************************)
Signals == {"BREAK", "CONTINUE"}

LoopKinds == {"FOR", "WHILE"}

OuterKinds == {"FOR", "WHILE", "NONE"}

NestKinds == {"IF", "FOR", "WHILE"}

Uses == {"bare", "assigned"}

\* stmts under d nested IFs, by turns through an IF branch, an ELSE branch
\* and an ELIF branch.
RECURSIVE InIfs(_, _)
InIfs(d, stmts) ==
    IF d = 0 THEN stmts
    ELSE IF d % 3 = 1
    THEN <<If(Kw("TRUE"), Block(InIfs(d - 1, stmts)))>>
    ELSE IF d % 3 = 2
    THEN <<IfElse(Kw("FALSE"), Block(<<>>), Block(InIfs(d - 1, stmts)))>>
    ELSE <<IfElif(Kw("FALSE"), Block(<<>>), Kw("TRUE"), Block(InIfs(d - 1, stmts)))>>

Loop(kind, x, stmts) ==
    IF kind = "FOR" THEN For(x, Integer(0), Integer(2), Block(stmts))
    ELSE While(Kw("TRUE"), Block(stmts))

\* main with an inner loop whose body is IF ... BREAK ... ENDIF x = 1,
\* alone or inside an outer loop that goes on with y = 1.
BreakProgram(d, inner, outer) ==
    LET in == Loop(inner, "j", InIfs(d, <<Break(1)>>) \o <<Affect(2, "x", Integer(1))>>)
        after == <<Affect(4, "z", Integer(1))>>
    IN  << Function("main", <<>>,
             IF outer = "NONE" THEN <<in>> \o after
             ELSE IF outer = "FOR"
             THEN <<Loop("FOR", "i", <<in, Affect(3, "y", Integer(1))>>)>> \o after
             ELSE <<Loop("WHILE", "i", <<in, Affect(3, "y", Integer(1)), Break(5)>>)>>
                  \o after) >>

BreakPrograms ==
    {BreakProgram(d, inner, outer) :
        d \in 0..MaxIfDepth, inner \in LoopKinds, outer \in OuterKinds}

\* RETURN 7 under the nesting nest (outermost first), each enclosing block
\* going on with w = 1.
RECURSIVE Nested(_, _)
Nested(nest, stmts) ==
    IF nest = <<>> THEN stmts
    ELSE LET inside == Nested(Tail(nest), stmts) \o <<Affect(2, "w", Integer(1))>>
         IN  IF Head(nest) = "IF" THEN <<If(Kw("TRUE"), Block(inside))>>
             ELSE IF Len(nest) % 2 = 1 THEN <<Loop(Head(nest), "j", inside)>>
             ELSE <<Loop(Head(nest), "k", inside)>>

\* main calls f, whose RETURN is nested, alone or from inside a loop, as a
\* statement or in an assignment.
ReturnProgram(nest, outer, use) ==
    LET call == IF use = "bare" THEN <<Call(3, "f", <<>>)>>
                ELSE <<Affect(3, "x", Call(0, "f", <<>>))>>
        after == <<Affect(4, "z", Integer(1))>>
    IN  << Function("main", <<>>,
             IF outer = "NONE" THEN call \o after
             ELSE IF outer = "FOR" THEN <<Loop("FOR", "i", call)>> \o after
             ELSE <<Loop("WHILE", "i", call \o <<Break(5)>>)>> \o after),
           Function("f", <<>>,
             Nested(nest, <<Return(1, Integer(7))>>) \o <<Affect(2, "w", Integer(1))>>) >>

Nestings == UNION {[1..l -> NestKinds] : l \in 0..MaxNest}

ReturnPrograms ==
    {ReturnProgram(nest, outer, use) :
        nest \in Nestings, outer \in OuterKinds, use \in Uses}

\* A BREAK or CONTINUE outside every loop of f, under d IFs; main calls f
\* from a loop (bare call) or assigns its result.
StrayProgram(d, signal, use) ==
    << Function("main", <<>>,
         IF use = "bare"
         THEN <<Loop("FOR", "i", <<Call(3, "f", <<>>), Affect(2, "y", Integer(1))>>)>>
         ELSE <<Affect(3, "x", Call(0, "f", <<>>))>>),
       Function("f", <<>>,
         InIfs(d, IF signal = "BREAK" THEN <<Break(1)>> ELSE <<Continue(1)>>)) >>

StrayPrograms ==
    {StrayProgram(d, signal, use) :
        d \in 0..1, signal \in Signals, use \in Uses}

\* f has no RETURN; its body is an assignment, a bare MALLOC, a bare FREE or
\* a bare call of g, which returns 7.  main assigns the result of f(1).
NoReturnBodies ==
    { <<Affect(1, "w", Var("p"))>>,
      <<Call(1, "MALLOC", <<Var("p")>>)>>,
      <<Affect(2, "w", Call(0, "MALLOC", <<Var("p"), Integer(3)>>)), Call(1, "FREE", <<Var("w")>>)>>,
      <<Call(1, "g", <<>>)>>,
      <<Loop("FOR", "j", <<If(Kw("TRUE"), Block(<<Call(1, "g", <<>>)>>))>>)>> }

NoReturnProgram(body) ==
    << Function("main", <<>>, <<Affect(3, "x", Call(0, "f", <<Integer(1)>>))>>),
       Function("f", <<"p">>, body),
       Function("g", <<>>, <<Return(4, Integer(7))>>) >>

NoReturnPrograms == {NoReturnProgram(body) : body \in NoReturnBodies}

\* main asks for the count of elementary operations: at once, and on every
\* turn of a loop long enough for the count to pass 2^w.
CountCall == Call(0, "ELEMENTARY_OPERATIONS", <<Kw("INT")>>)

CountPrograms ==
    { << Function("main", <<>>, <<Affect(1, "x", CountCall)>>) >>,
      << Function("main", <<>>,
           <<For("i", Integer(0), Integer(Pow2(INT_NB_BITS - 1) - 1),
                 Block(<<Affect(1, "x", CountCall)>>)),
             Affect(2, "y", CountCall)>>) >> }

\* FUNCTION main() FOR(i;0;5) IF(i == 3) BREAK ENDIF PRINT(INT,i) ENDFOR END
BreakPrintProgram ==
    << Function("main", <<>>,
         <<For("i", Integer(0), Integer(5),
               Block(<<If(Op(Var("i"), "==", Integer(3)), Block(<<Break(11)>>)),
                       Call(12, "PRINT", <<Kw("INT"), Var("i")>>)>>))>>) >>

\* FUNCTION fact(n) IF(n<=1) RETURN 1 ENDIF RETURN n * fact(n-1) END
fact ==
    Function("fact", <<"n">>,
      <<If(Op(Var("n"), "<=", Integer(1)), Block(<<Return(13, Integer(1))>>)),
        Return(14, Op(Var("n"), "*",
                      Call(15, "fact", <<Op(Var("n"), "-", Integer(1))>>)))>>)

\* FUNCTION main() PRINT(INT, fact(n)) END with fact.
FactProgram(n) ==
    << Function("main", <<>>,
         <<Call(16, "PRINT", <<Kw("INT"), Call(17, "fact", <<Integer(n)>>)>>)>>),
       fact >>

\* The arguments of fact whose frames the memory holds, main having no local.
FactArguments == 1..(MEMORY_SIZE - 2)

FactPrograms == {FactProgram(n) : n \in FactArguments}

\* FUNCTION main() FOR(i;0;n) body ENDFOR z = 1 END, the body being empty,
\* x = 1, CONTINUE x = 1, or IF(i == m) BREAK ENDIF x = 1.
ForBody(kind, m) ==
    CASE kind = "empty" -> <<>>
      [] kind = "affect" -> <<Affect(21, "x", Integer(1))>>
      [] kind = "continue" -> <<Continue(23), Affect(21, "x", Integer(1))>>
      [] kind = "break" ->
            <<If(Op(Var("i"), "==", Integer(m)), Block(<<Break(22)>>)),
              Affect(21, "x", Integer(1))>>

ForProgram(n, kind, m) ==
    << Function("main", <<>>,
         <<For("i", Integer(0), Integer(n), Block(ForBody(kind, m))),
           Affect(24, "z", Integer(1))>>) >>

ForKinds == {"empty", "affect", "continue"}

ForPrograms ==
    {ForProgram(n, kind, 0) : n \in 0..MaxIterations, kind \in ForKinds}
    \cup {ForProgram(n, "break", m) : n \in 1..MaxIterations, m \in 0..(MaxIterations - 1)}

\* main sets its local a, calls f(2), bare or in b = f(2), and reads a; f
\* writes its parameter a, declares its local q, writes the global g and
\* ends by RETURN q or by the end of its body.
Endings == {"RETURN", "END"}

FrameProgram(ending, use) ==
    << Function("main", <<>>,
         <<Affect(31, "a", Integer(1)),
           IF use = "bare" THEN Call(32, "f", <<Integer(2)>>)
           ELSE Affect(32, "b", Call(0, "f", <<Integer(2)>>)),
           Affect(33, "z", Var("a"))>>),
       Function("f", <<"a">>,
         <<Affect(34, "a", Integer(4)), Affect(35, "q", Integer(5)),
           Affect(36, "g", Integer(6))>>
         \o (IF ending = "RETURN" THEN <<Return(37, Var("q"))>> ELSE <<>>)) >>

FramePrograms == {FrameProgram(ending, use) : ending \in Endings, use \in Uses}

\* main calls h, which no FUNCTION declares, or f with one argument too many.
FatalCall(name, nb_parameters) ==
    << Function("main", <<>>,
         <<Affect(31, "a", Integer(1)),
           Call(32, name, [i \in 1..nb_parameters |-> Integer(i)]),
           Affect(33, "z", Var("a"))>>),
       Function("f", <<"a">>, <<Affect(34, "a", Integer(4))>>) >>

FatalCallPrograms == {FatalCall("h", 1), FatalCall("f", 2), FatalCall("f", 0)}

\* Plain assignments to the global g and to locals of main and of h.
AssignProgram ==
    << Function("main", <<>>,
         <<Affect(41, "g", Integer(3)), Affect(42, "x", Integer(4)),
           Affect(43, "x", Integer(5)), Affect(44, "y", Var("x")),
           Call(45, "h", <<>>)>>),
       Function("h", <<>>,
         <<Affect(46, "x", Var("g")), Affect(47, "x", Integer(7)),
           Affect(48, "g", Var("x"))>>) >>

\* The programs that start with the declaration of a global, g = 2.
GlobalPrograms == FramePrograms \cup FatalCallPrograms \cup {AssignProgram}

\* FUNCTION main() FOR(i;0;2) IF(i == 0) CONTINUE ENDIF PRINT(INT,i) ENDFOR
\* WHILE(TRUE) BREAK ENDWHILE x = f() END FUNCTION f() RETURN 7 END
MixProgram ==
    << Function("main", <<>>,
         <<For("i", Integer(0), Integer(2),
               Block(<<If(Op(Var("i"), "==", Integer(0)), Block(<<Continue(51)>>)),
                       Call(52, "PRINT", <<Kw("INT"), Var("i")>>)>>)),
           While(Kw("TRUE"), Block(<<Break(53)>>)),
           Affect(54, "x", Call(0, "f", <<>>))>>),
       Function("f", <<>>, <<Return(55, Integer(7))>>) >>

\* The times a CONTINUE is executed: in every iteration, or in the first only.
Whens == {"always", "first"}

\* CONTINUE under d IFs, then x = 1: the body of the inner loop on variable.
ContinueBody(d, when, variable, first) ==
    (IF when = "always" THEN InIfs(d, <<Continue(61)>>)
     ELSE <<If(Op(Var(variable), "==", Integer(first)), Block(InIfs(d, <<Continue(61)>>)))>>)
    \o <<Affect(62, "x", Integer(1))>>

\* FOR(j;0;2) body ENDFOR, or j = 0 WHILE(j < 2) j = j + 1 body ENDWHILE.
ContinueLoop(d, when, inner) ==
    IF inner = "FOR"
    THEN <<For("j", Integer(0), Integer(2), Block(ContinueBody(d, when, "j", 0)))>>
    ELSE <<Affect(66, "j", Integer(0)),
           While(Op(Var("j"), "<", Integer(2)),
                 Block(<<Affect(65, "j", Op(Var("j"), "+", Integer(1)))>>
                       \o ContinueBody(d, when, "j", 1)))>>

\* main with the inner loop alone or inside an outer loop that goes on with
\* x = 2, and x = 3 after the loops.
ContinueProgram(d, when, inner, outer) ==
    LET in == ContinueLoop(d, when, inner)
        after == <<Affect(64, "x", Integer(3))>>
    IN  << Function("main", <<>>,
             IF outer = "NONE" THEN in \o after
             ELSE IF outer = "FOR"
             THEN <<Loop("FOR", "i", in \o <<Affect(63, "x", Integer(2))>>)>> \o after
             ELSE <<Loop("WHILE", "i", in \o <<Affect(63, "x", Integer(2)), Break(67)>>)>>
                  \o after) >>

ContinuePrograms ==
    {ContinueProgram(d, when, inner, outer) :
        d \in 0..MaxIfDepth, when \in Whens, inner \in LoopKinds, outer \in OuterKinds}

\* The conditions of a chain: the literals TRUE and FALSE, or calls of yes
\* and no, which leave their statement ids in the history.
ConditionModes == {"literal", "call"}

\* FUNCTION yes() RETURN TRUE END and FUNCTION no() RETURN FALSE END.
yes == Function("yes", <<>>, <<Return(0, Kw("TRUE"))>>)

no == Function("no", <<>>, <<Return(0, Kw("FALSE"))>>)

\* The i-th condition of a chain, of value b.
ChainCondition(mode, i, b) ==
    IF mode = "literal" THEN Kw(IF b THEN "TRUE" ELSE "FALSE")
    ELSE Call(70 + i, IF b THEN "yes" ELSE "no", <<>>)

\* IF(c1) x = 1 ELIF(c2) x = 2 ... [ELSE x = 0] ENDIF y = 1, the conditions
\* having the values conds.
ChainProgram(mode, conds, else) ==
    LET n == Len(conds)
        kids == [j \in 1..(2 * n) |->
                    IF j % 2 = 1 THEN ChainCondition(mode, (j + 1) \div 2, conds[(j + 1) \div 2])
                    ELSE Block(<<Affect(80 + j \div 2, "x", Integer(j \div 2))>>)]
                \o (IF else THEN <<Block(<<Affect(89, "x", Integer(0))>>)>> ELSE <<>>)
    IN  << Function("main", <<>>,
             <<Node("ifexpr", "", "", 0, kids), Affect(90, "y", Integer(1))>>),
           yes, no >>

ChainConditions == UNION {[1..n -> BOOLEAN] : n \in 1..MaxConditions}

ChainPrograms ==
    {ChainProgram(mode, conds, else) :
        mode \in ConditionModes, conds \in ChainConditions, else \in BOOLEAN}

\* FUNCTION main() x = L op R y = 1 END, op being AND or OR, L and R having
\* the values l and r.
BoolProgram(mode, operator, l, r) ==
    << Function("main", <<>>,
         <<Affect(95, "x", BoolOp(ChainCondition(mode, 1, l), operator,
                                  ChainCondition(mode, 2, r))),
           Affect(96, "y", Integer(1))>>),
       yes, no >>

BoolPrograms ==
    {BoolProgram(mode, operator, l, r) :
        mode \in ConditionModes, operator \in {"AND", "OR"}, l \in BOOLEAN, r \in BOOLEAN}

Programs ==
    BreakPrograms \cup ReturnPrograms \cup StrayPrograms \cup NoReturnPrograms
    \cup CountPrograms \cup {BreakPrintProgram} \cup FactPrograms
    \cup ForPrograms \cup GlobalPrograms \cup {MixProgram}
    \cup ContinuePrograms \cup ChainPrograms
    \cup BoolPrograms

\* SynCParser: the programs the grammar accepts.
Parses(fi) == \A i \in 1..Len(fi) : block(fi[i].tree)

(***************************************************************************)
(* SpecRun: main_function_iterator runs the main of a program.             *)
(***************************************************************************)
\* The attributes of SynCProgram(tree) for the program fi, and the
\* generator of its main, not started yet.
LoadedProgram(fi, id) ==
    LET gv == IF fi \in GlobalPrograms THEN <<"g">> ELSE <<>>
    IN  [id |-> id,
         functions_infos |-> fi,
         read_write_stack_limit |-> 1,
         global_variables |-> gv,
         local_variables |-> <<>>,
         memory_heap |-> <<>>,
         memory |-> [a \in 1..(MEMORY_SIZE - 1) |->
                        IF a < 1 + Len(gv) THEN W(int_to_bin(2)) ELSE W(0)],
         err |-> "none",
         gens |-> <<Gen(Node("function", "", "main", 0, <<>>), <<>>)>>,
         sig |-> Sig("run", 1, FALSE, None),
         nb_elementary_operations |-> 0,
         log |-> <<>>,
         input_buffer |-> <<>>,
         stdout |-> <<>>]

InitRun ==
    /\ \E fi \in {p \in Programs : Parses(p)} :
          LET loaded == LoadedProgram(fi, 1)
          IN  /\ functions_infos = loaded.functions_infos
              /\ read_write_stack_limit = loaded.read_write_stack_limit
              /\ global_variables = loaded.global_variables
              /\ local_variables = loaded.local_variables
              /\ memory_heap = loaded.memory_heap
              /\ memory = loaded.memory
              /\ err = loaded.err
              /\ gens = loaded.gens
              /\ sig = loaded.sig
              /\ nb_elementary_operations = loaded.nb_elementary_operations
              /\ log = loaded.log
    /\ ret = NoRet
    /\ ast = <<>>
    /\ read_only_strings_adress = <<>>
    /\ NoHost

Set(st) ==
    /\ gens' = st.gens
    /\ sig' = st.sig
    /\ local_variables' = st.lv
    /\ memory_heap' = st.heap
    /\ memory' = st.mem
    /\ err' = st.err
    /\ log' = st.log
    /\ stdout' = st.out
    /\ UNCHANGED <<read_write_stack_limit, global_variables, ret, functions_infos,
                   nb_elementary_operations, ast, read_only_strings_adress,
                   input_buffer, player, other, game>>

\* Control is at a generator of kind kd.
Active(kd) ==
    /\ err = "none"
    /\ sig.d # "end"
    /\ sig.at >= 1
    /\ gens[sig.at].node.k = kd

ExecuteFunction ==
    /\ Active("function")
    /\ Set(execute_node(State, functions_infos))

ExecuteBlock ==
    /\ Active("block")
    /\ Set(execute_node(State, functions_infos))

ExecuteAtom ==
    /\ Active("atom")
    /\ Set(execute_node(State, functions_infos))

ExecuteAffect ==
    /\ Active("affect")
    /\ Set(execute_node(State, functions_infos))

ExecuteBinaryoperator ==
    /\ \E kd \in BinaryRules : Active(kd)
    /\ Set(execute_node(State, functions_infos))

ExecuteBoolbinaryoperator ==
    /\ Active("boolexpr")
    /\ Set(execute_node(State, functions_infos))

ExecuteCall ==
    /\ Active("call")
    /\ Set(execute_node(State, functions_infos))

ExecuteIfexpr ==
    /\ Active("ifexpr")
    /\ Set(execute_node(State, functions_infos))

ExecuteForexpr ==
    /\ Active("forexpr")
    /\ Set(execute_node(State, functions_infos))

ExecuteWhileexpr ==
    /\ Active("whileexpr")
    /\ Set(execute_node(State, functions_infos))

ExecuteBreakrule ==
    /\ Active("breakrule")
    /\ Set(execute_node(State, functions_infos))

ExecuteContinuerule ==
    /\ Active("continuerule")
    /\ Set(execute_node(State, functions_infos))

ExecuteReturnrule ==
    /\ Active("returnrule")
    /\ Set(execute_node(State, functions_infos))

\* if elementary: self.nb_elementary_operations += 1
Mut_count_every_item(n, elementary) == n + 1

Counted(n, elementary) == IF elementary THEN n + 1 ELSE n

\* main_function_iterator: it counts the elementary operations and asks
\* execute_function('main') for the next item until it is exhausted.
main_function_iterator ==
    /\ err = "none"
    /\ sig.d \in {"up", "fin"}
    /\ sig.at = 0
    /\ nb_elementary_operations < MaxOps
    /\ IF sig.d = "fin"
       THEN sig' = Sig("end", 0, FALSE, None) /\ UNCHANGED nb_elementary_operations
       ELSE /\ sig' = Sig("down", 1, FALSE, None)
            /\ nb_elementary_operations' = Counted(nb_elementary_operations, sig.el)
    /\ UNCHANGED <<mvars, functions_infos, gens, log, lvars>>

NextRun ==
    \/ ExecuteFunction
    \/ ExecuteBlock
    \/ ExecuteAtom
    \/ ExecuteAffect
    \/ ExecuteBinaryoperator
    \/ ExecuteBoolbinaryoperator
    \/ ExecuteCall
    \/ ExecuteIfexpr
    \/ ExecuteForexpr
    \/ ExecuteWhileexpr
    \/ ExecuteBreakrule
    \/ ExecuteContinuerule
    \/ ExecuteReturnrule
    \/ main_function_iterator

SpecRun == InitRun /\ [][NextRun]_vars

\* execute_program: the for loop on the program's iterator goes on until the
\* iterator is exhausted or raises.
SpecRunToEnd == SpecRun /\ WF_vars(NextRun)

(***************************************************************************)
(* The load of a program: SynCProgram.__init__(tree).  The tree is         *)
(* [globals, functions]: the global assignments [variable, value] of the   *)
(* GLOBALS section and the function declarations, in program order.        *)
(***************************************************************************)
String(raw) == Node("atom", "string", raw, 0, <<>>)

GlobalAffect(variable, value) == [variable |-> variable, value |-> value]

Tree(globals, functions) == [globals |-> globals, functions |-> functions]

\* The characters between the quotes of the string tokens the programs use.
Characters(raw) ==
    CASE raw = "" -> <<>>
      [] raw = "a" -> <<"a">>
      [] raw = "b" -> <<"b">>
      [] raw = "a\\0" -> <<"a", "\\", "0">>
      [] raw = "\\n" -> <<"\\", "n">>
      [] raw = "\t" -> <<"\t">>

\* ord(c)
ord(c) ==
    CASE c = "a" -> 97
      [] c = "b" -> 98
      [] c = "0" -> 48
      [] c = "n" -> 110
      [] c = "\\" -> 92
      [] c = "\t" -> 9

\* converter_sync.char_to_bin on a character code.
char_to_bin(x) == W(x)

\* check_is_string_is_ascii_printable_with_escape from character i (1-based):
\* the place of the first character that is neither printable ASCII nor part
\* of an escape \0 \t \v \r \n \f \\ \', or 0 when there is none.
RECURSIVE check_from(_, _, _)
check_from(s, i, check_escape) ==
    IF i > Len(s) THEN 0
    ELSE IF ~ check_escape /\ s[i] = "\\" THEN check_from(s, i + 1, TRUE)
    ELSE IF check_escape /\ s[i] \in {"0", "t", "v", "r", "n", "f", "\\", "'"}
         THEN check_from(s, i + 1, FALSE)
    ELSE IF ~ check_escape /\ 32 <= ord(s[i]) /\ ord(s[i]) <= 126
         THEN check_from(s, i + 1, FALSE)
    ELSE i

check_is_string_is_ascii_printable_with_escape(s) == check_from(s, 1, FALSE)

\* str.encode().decode('unicode_escape') on a checked string: the character
\* codes, an escape giving one code.
RECURSIVE unicode_escape(_)
unicode_escape(s) ==
    IF s = <<>> THEN <<>>
    ELSE IF s[1] = "\\" /\ Len(s) >= 2
    THEN <<CASE s[2] = "0" -> 0
             [] s[2] = "n" -> 10
             [] OTHER -> ord(s[2])>> \o unicode_escape(SubSeq(s, 3, Len(s)))
    ELSE <<ord(s[1])>> \o unicode_escape(Tail(s))

\* SynCProgram._set_string_to_address: the NUL first, then the characters.
_set_string_to_address(mem, s, address, rwsl) ==
    LET nul == _set_memory(mem, address + Len(s), char_to_bin(0), rwsl)
    IN  IF nul.err # "none" THEN nul
        ELSE WriteAll(nul.memory, address, [i \in 1..Len(s) |-> char_to_bin(s[i])], rwsl)

\* The leaves of a subtree, in the order the recursive searches meet them.
RECURSIVE Leaves(_)
RECURSIVE LeavesOfAll(_)
Leaves(node) ==
    IF node.k = "atom" THEN <<node>> ELSE LeavesOfAll(node.kids)

LeavesOfAll(nodes) ==
    IF nodes = <<>> THEN <<>> ELSE Leaves(Head(nodes)) \o LeavesOfAll(Tail(nodes))

TreeLeaves(tree) ==
    [i \in 1..Len(tree.globals) |-> tree.globals[i].value]
    \o LeavesOfAll([i \in 1..Len(tree.functions) |-> tree.functions[i].tree])

\* SynCProgram._read_structs_and_functions: [err, functions_infos].
RECURSIVE _read_function(_, _)
_read_function(functions, fi) ==
    IF functions = <<>> THEN [err |-> "none", functions_infos |-> fi]
    ELSE LET function == Head(functions)
             parameters == function.parameters
         IN  IF Declared(fi, function.name)
             THEN [err |-> "SameNameFunctionError", functions_infos |-> fi]
             ELSE IF \E i \in 1..Len(parameters) :
                        InSeq(parameters[i], SubSeq(parameters, i + 1, Len(parameters)))
             THEN [err |-> "SameParametersNameFunctionError", functions_infos |-> fi]
             ELSE _read_function(Tail(functions), Append(fi, function))

_read_structs_and_functions(tree) == _read_function(tree.functions, <<>>)

\* SynCProgram._check_main_function: the error, or "none".
_check_main_function(fi) ==
    IF ~ Declared(fi, "main") THEN "NoMainFunctionError"
    ELSE IF Len(Info(fi, "main").parameters) # 0 THEN "MainFunctionWithParametersError"
    ELSE "none"

\* The boundary after a string stored at rwsl: the characters and the NUL.
Mut_limit_without_nul(rwsl, string_value) == rwsl + Len(string_value)

NextLimit(rwsl, string_value) == rwsl + Len(string_value) + 1

\* SynCProgram._search_for_static_strings over the leaves:
\* [err, memory, rwsl, strings], strings being read_only_strings_adress.
RECURSIVE _search_for_static_strings_aux(_, _, _, _)
_search_for_static_strings_aux(leaves, mem, rwsl, strings) ==
    IF leaves = <<>>
    THEN [err |-> "none", memory |-> mem, rwsl |-> rwsl, strings |-> strings]
    ELSE LET subtree == Head(leaves)
             raw == subtree.name
             string_value == unicode_escape(Characters(raw))
             w == _set_string_to_address(mem, string_value, rwsl, rwsl)
         IN  IF subtree.lit # "string" \/ raw \in DOMAIN strings
             THEN _search_for_static_strings_aux(Tail(leaves), mem, rwsl, strings)
             ELSE IF check_is_string_is_ascii_printable_with_escape(Characters(raw)) # 0
             THEN [err |-> "NonValidCharacterError", memory |-> mem, rwsl |-> rwsl,
                   strings |-> strings @@ (raw :> rwsl)]
             ELSE IF w.err # "none"
             THEN [err |-> w.err, memory |-> w.memory, rwsl |-> rwsl,
                   strings |-> strings @@ (raw :> rwsl)]
             ELSE _search_for_static_strings_aux(Tail(leaves), w.memory,
                        NextLimit(rwsl, string_value), strings @@ (raw :> rwsl))

_search_for_static_strings(tree, mem, rwsl) ==
    _search_for_static_strings_aux(TreeLeaves(tree), mem, rwsl, <<>>)

\* SynCProgram._search_int_char_float_errors over the leaves: the error, or "none".
_search_int_char_float_errors(tree) ==
    IF \E i \in 1..Len(TreeLeaves(tree)) :
          LET leaf == TreeLeaves(tree)[i]
          IN  /\ leaf.lit = "integer"
              /\ ~ (- Pow2(INT_NB_BITS - 1) <= leaf.v /\ leaf.v < Pow2(INT_NB_BITS - 1))
    THEN "NonValidIntegerError"
    ELSE "none"

\* The word of a literal: _declare_globals and _execute_atom.
LiteralWord(literal, strings) ==
    CASE literal.lit = "integer" -> W(int_to_bin(literal.v))
      [] literal.lit = "string" -> W(strings[literal.name])
      [] literal.lit = "keyword" -> W(literal_to_bin(literal.name))

\* The names _declare_globals refuses for a global: the error, or "none".
Mut_refuse_duplicates_only(variable, gv, fi) ==
    IF InSeq(variable, gv) THEN "SameGlobalVariableNameError" ELSE "none"

RefusedGlobal(variable, gv, fi) ==
    IF InSeq(variable, gv) THEN "SameGlobalVariableNameError"
    ELSE IF \E i \in 1..Len(fi) : InSeq(variable, fi[i].parameters)
    THEN "GlobalVariableAndFunctionParameterWithSameNameError"
    ELSE "none"

\* SynCProgram._declare_globals: [err, gv, memory].
RECURSIVE _declare_globals(_, _, _, _, _, _)
_declare_globals(globals, fi, gv, mem, rwsl, strings) ==
    IF globals = <<>> THEN [err |-> "none", gv |-> gv, memory |-> mem]
    ELSE LET variable == Head(globals).variable
             gv2 == Append(gv, variable)
             value == LiteralWord(Head(globals).value, strings)
             address == _get_variable_address(variable, gv2, << <<>> >>, rwsl).address
             w == _set_memory(mem, address, value, rwsl)
         IN  IF RefusedGlobal(variable, gv, fi) # "none"
             THEN [err |-> RefusedGlobal(variable, gv, fi), gv |-> gv, memory |-> mem]
             ELSE IF w.err # "none" THEN [err |-> w.err, gv |-> gv2, memory |-> mem]
             ELSE _declare_globals(Tail(globals), fi, gv2, w.memory, rwsl, strings)

\* The order in which __init__ runs the two last steps of the load.
Mut_main_before_globals(g, m) == IF m # "none" THEN m ELSE g

LastSteps(g, m) == IF g # "none" THEN g ELSE m

\* SynCProgram.__init__: [err, functions_infos, memory, rwsl, strings, gv].
__init__(tree, mem, rwsl) ==
    LET f == _read_structs_and_functions(tree)
        s == _search_for_static_strings(tree, mem, rwsl)
        i == _search_int_char_float_errors(tree)
        g == _declare_globals(tree.globals, f.functions_infos, <<>>, s.memory, s.rwsl,
                              s.strings)
        m == _check_main_function(f.functions_infos)
        none == [err |-> "none", functions_infos |-> <<>>, memory |-> mem,
                 rwsl |-> rwsl, strings |-> <<>>, gv |-> <<>>]
    IN  IF f.err # "none"
        THEN [none EXCEPT !.err = f.err, !.functions_infos = f.functions_infos]
        ELSE IF s.err # "none"
        THEN [none EXCEPT !.err = s.err, !.functions_infos = f.functions_infos,
                          !.memory = s.memory, !.rwsl = s.rwsl, !.strings = s.strings]
        ELSE IF i # "none"
        THEN [none EXCEPT !.err = i, !.functions_infos = f.functions_infos,
                          !.memory = s.memory, !.rwsl = s.rwsl, !.strings = s.strings]
        ELSE [err |-> LastSteps(g.err, m), functions_infos |-> f.functions_infos,
              memory |-> g.memory, rwsl |-> s.rwsl, strings |-> s.strings, gv |-> g.gv]

(***************************************************************************)
(* SpecAcc: a program has been loaded, its main function is entered, and   *)
(* then any sequence of the operations that touch the memory runs in main. *)
(***************************************************************************)
\* The programs whose load SpecAcc starts from: one with the static string
\* "a", one with the empty static string and a global.
AccTrees ==
    {Tree(<<>>, <<Function("main", <<>>, <<Affect(1, "a", String("a"))>>)>>),
     Tree(<<GlobalAffect("g1", Integer(5))>>,
          <<Function("main", <<>>, <<Affect(1, "a", String(""))>>)>>)}

\* The word the operations store (the code of the character 5, which I2S
\* stores too), and the words they use as pointers, indexes and field indexes:
\* NULL, a read-only address, the addresses next to R, the last address,
\* and the first word that is no pointer.
Words == {W(53)}
Pointers == {0, 1, 2, 3, MEMORY_SIZE - 1, MEMORY_SIZE}
Indexes == {1, Pow2(INT_NB_BITS) - 1}
Fields == {0, 1}
Names == {"a", "g1"}

\* The state SynCProgram(tree) leaves.
InitAcc ==
    /\ ast \in AccTrees
    /\ LET p == __init__(ast, [a \in 1..(MEMORY_SIZE - 1) |-> W(0)], 1)
       IN  /\ functions_infos = p.functions_infos
           /\ memory = p.memory
           /\ read_write_stack_limit = p.rwsl
           /\ read_only_strings_adress = p.strings
           /\ global_variables = p.gv
           /\ err = p.err
    /\ local_variables = <<>>
    /\ memory_heap = <<>>
    /\ ret = NoRet
    /\ gens = <<>>
    /\ sig = NoSig
    /\ nb_elementary_operations = 0
    /\ log = <<>>
    /\ NoHost

avars == <<ast, ret, gens, sig, nb_elementary_operations, log, hvars>>

\* The entry of execute_function('main'): the frame of main is pushed.
AccMain ==
    /\ err = "none"
    /\ local_variables = <<>>
    /\ LET p == PushFrame(<<>>, local_variables, memory_heap, read_write_stack_limit)
       IN  /\ local_variables' = p.lv
           /\ err' = p.err
    /\ UNCHANGED <<read_write_stack_limit, global_variables, memory_heap, memory,
                   functions_infos, read_only_strings_adress, avars>>

InMain == err = "none" /\ local_variables # <<>>

\* What an operation leaves alone besides the memory, the stack and the heap.
Kept == UNCHANGED <<read_write_stack_limit, global_variables, functions_infos,
                    read_only_strings_adress, avars>>

\* A variable read by its name: _execute_atom.
AccAtom(variable) ==
    /\ InMain
    /\ LET a == _get_variable_address(variable, global_variables, local_variables,
                                      read_write_stack_limit)
           r == _get_memory(memory, a.address)
       IN  /\ err' = IF a.err # "none" THEN a.err ELSE r.err
    /\ UNCHANGED <<local_variables, memory_heap, memory>>
    /\ Kept

\* variable = value: _execute_affect.
AccAffect(variable, value) ==
    /\ InMain
    /\ LET d == DeclareAffect(variable, global_variables, local_variables,
                              memory_heap, read_write_stack_limit)
           a == _get_variable_address(variable, global_variables, d.lv,
                                      read_write_stack_limit)
           w == _set_memory(memory, a.address, value, read_write_stack_limit)
       IN  /\ local_variables' = d.lv
           /\ err' = IF d.err # "none" THEN d.err ELSE w.err
           /\ memory' = IF d.err # "none" THEN memory ELSE w.memory
    /\ UNCHANGED memory_heap
    /\ Kept

\* The write of value at pointer + offset, pointer being a word: the end of
\* _execute_arrayaffect, _execute_structaffect and _execute_derefaffect.
PointerWrite(pointer, offset, value) ==
    LET p == bin_to_pointer(pointer)
        w == _set_memory(memory, p.v + offset, value, read_write_stack_limit)
    IN  /\ err' = IF p.err # "none" THEN p.err ELSE w.err
        /\ memory' = IF p.err # "none" THEN memory ELSE w.memory
        /\ UNCHANGED <<local_variables, memory_heap>>
        /\ Kept

\* The read at pointer + offset: _execute_arraycall, _execute_structcall and
\* the operator $ of _execute_unaryexpr.
PointerRead(pointer, offset) ==
    LET p == bin_to_pointer(pointer)
        r == _get_memory(memory, p.v + offset)
    IN  /\ err' = IF p.err # "none" THEN p.err ELSE r.err
        /\ UNCHANGED <<local_variables, memory_heap, memory>>
        /\ Kept

\* pointer[index] = value
AccArrayaffect(pointer, index, value) ==
    /\ InMain
    /\ PointerWrite(pointer, bin_to_int(index), value)

\* pointer->field = value, field being the field_index-th of its structure.
AccStructaffect(pointer, field_index, value) ==
    /\ InMain
    /\ PointerWrite(pointer, field_index, value)

\* $pointer = value
AccDerefaffect(pointer, value) ==
    /\ InMain
    /\ PointerWrite(pointer, 0, value)

\* pointer[index]
AccArraycall(pointer, index) ==
    /\ InMain
    /\ PointerRead(pointer, bin_to_int(index))

\* pointer->field
AccStructcall(pointer, field_index) ==
    /\ InMain
    /\ PointerRead(pointer, field_index)

\* $pointer
AccDeref(pointer) ==
    /\ InMain
    /\ PointerRead(pointer, 0)

\* MALLOC(size, values...): _execute_call.
AccMalloc(size, values) ==
    /\ InMain
    /\ LET m == _malloc(bin_to_int(size), memory_heap, local_variables,
                        read_write_stack_limit)
           w == WriteAll(memory, m.address, values, read_write_stack_limit)
       IN  /\ memory_heap' = m.heap
           /\ err' = IF m.err # "none" THEN m.err ELSE w.err
           /\ memory' = IF m.err # "none" THEN memory ELSE w.memory
    /\ UNCHANGED local_variables
    /\ Kept

\* FREE(x): _execute_call.
AccFree(x) ==
    /\ InMain
    /\ LET p == bin_to_pointer(x)
           f == _free(p.v, memory_heap)
       IN  /\ memory_heap' = IF p.err # "none" THEN memory_heap ELSE f.heap
           /\ err' = IF p.err # "none" THEN p.err ELSE f.err
    /\ UNCHANGED <<local_variables, memory>>
    /\ Kept

\* s[:size]
Slice(s, size) ==
    IF size >= 0 THEN SubSeq(s, 1, IF size < Len(s) THEN size ELSE Len(s))
    ELSE SubSeq(s, 1, IF Len(s) + size > 0 THEN Len(s) + size ELSE 0)

\* I2S(value, pointer, size): _execute_call.
AccI2S(value, pointer, size) ==
    /\ InMain
    /\ LET p == bin_to_pointer(pointer)
           s == Slice(str(bin_to_int(value)), bin_to_int(size))
           w == _set_string_to_address(memory, s, p.v, read_write_stack_limit)
       IN  /\ err' = IF p.err # "none" THEN p.err ELSE w.err
           /\ memory' = IF p.err # "none" THEN memory ELSE w.memory
    /\ UNCHANGED <<local_variables, memory_heap>>
    /\ Kept

NextAcc ==
    \/ AccMain
    \/ \E v \in Names : AccAtom(v)
    \/ \E v \in Names, w \in Words : AccAffect(v, w)
    \/ \E p \in Pointers, i \in Indexes, w \in Words : AccArrayaffect(p, i, w)
    \/ \E p \in Pointers, f \in Fields, w \in Words : AccStructaffect(p, f, w)
    \/ \E p \in Pointers, w \in Words : AccDerefaffect(p, w)
    \/ \E p \in Pointers, i \in Indexes : AccArraycall(p, i)
    \/ \E p \in Pointers, f \in Fields : AccStructcall(p, f)
    \/ \E p \in Pointers : AccDeref(p)
    \/ \E size \in 0..MaxSize, vs \in {<<>>} \cup {<<w>> : w \in Words} : AccMalloc(size, vs)
    \/ \E x \in Pointers : AccFree(x)
    \/ \E p \in Pointers, size \in 0..1 : AccI2S(5, p, size)

SpecAcc == InitAcc /\ [][NextAcc]_vars

(***************************************************************************)
(* SpecLoad: SynCProgram(tree) on the programs of a bounded family, then   *)
(* main and the functions it calls reading and assigning variables by name *)
(* and evaluating the string literals.  ret is the last of these           *)
(* operations with the word it gave.                                       *)
(***************************************************************************)
\* The literal no word can hold: 2^(w-1).
TooLarge == Integer(Pow2(INT_NB_BITS - 1))

GlobalAffects ==
    {GlobalAffect("g1", Integer(5)), GlobalAffect("g2", String("a")),
     GlobalAffect("p", Kw("TRUE"))}

GlobalLists == UNION {[1..n -> GlobalAffects] : n \in 0..MaxGlobals}

\* The bodies of main: assignments of literals to a local.
Bodies ==
    {<<>>,
     <<Affect(1, "a", String("a"))>>,
     <<Affect(1, "a", String("a")), Affect(2, "a", String("b")),
       Affect(3, "a", String("a"))>>,
     <<Affect(1, "a", String("a\\0")), Affect(2, "a", String(""))>>,
     <<Affect(1, "a", String("\\n"))>>,
     <<Affect(1, "a", String("\t")), Affect(2, "a", TooLarge)>>,
     <<Affect(1, "a", TooLarge)>>}

FunctionLists ==
    {<<Function("main", <<>>, b)>> : b \in Bodies}
    \cup {<<Function("main", <<"p">>, <<>>)>>,
          <<Function("f", <<"p">>, <<>>)>>,
          <<Function("f", <<"p">>, <<>>), Function("main", <<>>, <<>>)>>,
          <<Function("main", <<>>, <<>>), Function("main", <<>>, <<>>)>>,
          <<Function("f", <<"p", "p">>, <<>>)>>,
          <<Function("main", <<>>, <<>>),
            Function("main", <<>>, <<Affect(1, "a", String("\t"))>>)>>}

Trees == {Tree(g, f) : g \in GlobalLists, f \in FunctionLists}

\* The fields of SynCProgram as __init__ first sets them (lines 43 to 96).
InitLoad ==
    /\ ast \in Trees
    /\ read_write_stack_limit = 1
    /\ global_variables = <<>>
    /\ local_variables = <<>>
    /\ memory_heap = <<>>
    /\ memory = [a \in 1..(MEMORY_SIZE - 1) |-> W(0)]
    /\ err = "none"
    /\ ret = NoRet
    /\ functions_infos = <<>>
    /\ gens = <<>>
    /\ sig = NoSig
    /\ nb_elementary_operations = 0
    /\ log = <<>>
    /\ read_only_strings_adress = <<>>
    /\ NoHost

\* The five steps of SynCProgram(tree), lines 98 to 111.
Load ==
    /\ ret.op = "none"
    /\ LET p == __init__(ast, memory, read_write_stack_limit)
       IN  /\ functions_infos' = p.functions_infos
           /\ memory' = p.memory
           /\ read_write_stack_limit' = p.rwsl
           /\ read_only_strings_adress' = p.strings
           /\ global_variables' = p.gv
           /\ err' = p.err
    /\ ret' = [op |-> "load", arg |-> 0, res |-> 0]
    /\ UNCHANGED <<local_variables, memory_heap, ast, gens, sig,
                   nb_elementary_operations, log, hvars>>

\* What main and the functions it calls leave alone.
LoadKept == UNCHANGED <<read_write_stack_limit, global_variables, functions_infos,
                        read_only_strings_adress, ast, gens, sig,
                        nb_elementary_operations, log, hvars>>

\* The entry of execute_function('main'): the frame of main is pushed.
LoadMain ==
    /\ ret.op = "load"
    /\ err = "none"
    /\ LET p == PushFrame(<<>>, local_variables, memory_heap, read_write_stack_limit)
       IN  /\ local_variables' = p.lv
           /\ err' = p.err
    /\ ret' = [op |-> "main", arg |-> 0, res |-> 0]
    /\ UNCHANGED <<memory_heap, memory>>
    /\ LoadKept

\* A function of the program other than main is called with one argument.
LoadCall ==
    /\ InMain
    /\ \E i \in 1..Len(functions_infos) :
          /\ functions_infos[i].name # "main"
          /\ MemCall(functions_infos[i].parameters)

\* A variable read by its name: _execute_atom.
LoadAtom(variable) ==
    /\ InMain
    /\ LET a == _get_variable_address(variable, global_variables, local_variables,
                                      read_write_stack_limit)
           r == _get_memory(memory, a.address)
       IN  /\ err' = IF a.err # "none" THEN a.err ELSE r.err
           /\ ret' = [op |-> "atom", arg |-> variable,
                      res |-> IF a.err # "none" \/ r.err # "none" THEN 0 ELSE r.v.w]
    /\ UNCHANGED <<local_variables, memory_heap, memory>>
    /\ LoadKept

\* A string literal of the program evaluated: _execute_atom.
LoadString(raw) ==
    /\ InMain
    /\ raw \in DOMAIN read_only_strings_adress
    /\ ret' = [op |-> "string", arg |-> raw,
               res |-> LiteralWord(String(raw), read_only_strings_adress).w]
    /\ UNCHANGED <<local_variables, memory_heap, memory, err>>
    /\ LoadKept

\* variable = value: _execute_affect.
LoadAffect(variable, value) ==
    /\ InMain
    /\ LET d == DeclareAffect(variable, global_variables, local_variables,
                              memory_heap, read_write_stack_limit)
           a == _get_variable_address(variable, global_variables, d.lv,
                                      read_write_stack_limit)
           w == _set_memory(memory, a.address, value, read_write_stack_limit)
       IN  /\ local_variables' = d.lv
           /\ err' = IF d.err # "none" THEN d.err ELSE w.err
           /\ memory' = IF d.err # "none" THEN memory ELSE w.memory
    /\ ret' = [op |-> "affect", arg |-> variable, res |-> value.w]
    /\ UNCHANGED memory_heap
    /\ LoadKept

LoadNames == {"a", "p", "g1", "g2"}

RawStrings == {"", "a", "b", "a\\0", "\\n", "\t"}

NextLoad ==
    \/ Load
    \/ LoadMain
    \/ LoadCall
    \/ \E v \in LoadNames : LoadAtom(v)
    \/ \E raw \in RawStrings : LoadString(raw)
    \/ \E v \in LoadNames, w \in Words : LoadAffect(v, w)

SpecLoad == InitLoad /\ [][NextLoad]_vars

(***************************************************************************)
(* SpecHost: referee.Player and the program it runs.  The host queues      *)
(* input lines and calls get_output_line, whose loop resumes the program   *)
(* with next(self.program): each resumption runs one elementary operation  *)
(* of any program (a READ, a PRINT, an allocation, a free, an assignment,  *)
(* a FOR, a call) or reaches the end of main.  A string is the sequence of *)
(* its characters.                                                         *)
(***************************************************************************)
\* Player.FIRST_MAX_ELEMENTARY_OPERATIONS_TIMEOUT and
\* Player.MAX_ELEMENTARY_OPERATIONS_TIMEOUT (500000 and 30000), scaled down.
FIRST_MAX_ELEMENTARY_OPERATIONS_TIMEOUT == 3

MAX_ELEMENTARY_OPERATIONS_TIMEOUT == 2
\* The most lines waiting in _stdin_of_this_turn.
MaxLines == 1
\* The most calls of get_output_line.
MaxTurns == 2

\* The width READ asks for (converter_sync.MAX_NB_BITS is INT_NB_BITS).
MAX_NB_BITS == INT_NB_BITS

NO_INPUT_MSG_ERROR == "No character available in standard input. "

TIMEOUT_MSG_ERROR ==
    "Program ended or too many elementary operations before sending an input"

\* "Last Line : %s ; Last char in line : %s " % (node_line, node_char)
LastLine == "Last Line"

\* The subclasses of ExecutionError a run can raise (execution_exceptions.py).
ExecutionErrors ==
    {"WrongBooleanCodeError", "WrongCharacterCodeError", "WrongPointerCodeError",
     "InvalidTypeParameterInFunctionError", "IncorrectNumberOfParametersInFunction",
     "MallocNegativeSizeError", "FreeNotAllocatedPointer", "MemoryAccessError",
     "MemoryExceededError", "ReadOnlyMemoryWriteError", "UndeclaredVariableError",
     "UndeclaredFunctionError", "UndeclaredStructureError", "UndeclaredFieldError",
     "StringToIntValueError", "FloatToIntValueError", "StringToFloatValueError",
     "MathDomainError", "ExecutionError"}

\* The digits of n > 0 in base 2, the first one a 1.
RECURSIVE Binary(_)
Binary(n) ==
    IF n = 0 THEN <<>>
    ELSE Binary(n \div 2) \o <<IF n % 2 = 1 THEN "1" ELSE "0">>

Zeros(n) == [i \in 1..n |-> "0"]

\* '{:0wb}'.format(x): at least w characters, the sign of a negative x one
\* of them.
Format(x, w) ==
    LET digits == IF x = 0 THEN <<"0">>
                  ELSE IF x < 0 THEN Binary(- x) ELSE Binary(x)
        sign == IF x < 0 THEN <<"-">> ELSE <<>>
        pad == w - Len(sign) - Len(digits)
    IN  sign \o Zeros(IF pad > 0 THEN pad ELSE 0) \o digits

\* converter_sync.bin_to_string
bin_to_string(x) == Format(x, MAX_NB_BITS)

\* int(bin, 2)
RECURSIVE int(_)
int(bin) ==
    IF bin = <<>> THEN 0
    ELSE 2 * int(SubSeq(bin, 1, Len(bin) - 1))
         + (IF bin[Len(bin)] = "1" THEN 1 ELSE 0)

\* The characters of s that READ keeps: c in '01'.
RECURSIVE Kept01(_)
Kept01(s) ==
    IF s = <<>> THEN <<>>
    ELSE IF Head(s) \in {"0", "1"} THEN <<Head(s)>> \o Kept01(Tail(s))
    ELSE Kept01(Tail(s))

\* str.strip() on the characters the programs print.
RECURSIVE strip(_)
strip(s) ==
    IF s = <<>> THEN <<>>
    ELSE IF Head(s) = "\n" THEN strip(Tail(s))
    ELSE IF s[Len(s)] = "\n" THEN strip(SubSeq(s, 1, Len(s) - 1))
    ELSE s

(***************************************************************************)
(* The program's side of next(self.program): what one elementary operation *)
(* does, as [exc, lv, heap, buf, stdin, printed, res]; exc is the          *)
(* exception that leaves the generator, or "none".                         *)
(***************************************************************************)
Item(exc, lv, heap, buf, stdin, printed, res) ==
    [exc |-> exc, lv |-> lv, heap |-> heap, buf |-> buf, stdin |-> stdin,
     printed |-> printed, res |-> res]

\* The first resumption enters main: execute_function pushes its frame.
Entered == IF local_variables = <<>> THEN << <<>> >> ELSE local_variables

\* The built-in READ, from the digits bin gathered so far: the whole buffer
\* is drained, then a line is asked of input() while bin is short.
RECURSIVE read_loop(_, _, _)
read_loop(bin, buffer, stdin) ==
    LET bin2 == bin \o Kept01(buffer)
    IN  IF Len(bin2) < MAX_NB_BITS
        THEN IF stdin = <<>>
             THEN Item("IndexError", Entered, memory_heap, <<>>, stdin, <<>>, 0)
             ELSE read_loop(bin2, Head(stdin), Tail(stdin))
        ELSE Item("none", Entered, memory_heap, <<>>, stdin, <<>>, int(bin2))

READ == read_loop(<<>>, input_buffer, player._stdin_of_this_turn)

\* PRINT(text)
PRINT(text) ==
    Item("none", Entered, memory_heap, input_buffer, player._stdin_of_this_turn,
         text, 0)

\* MALLOC(size)
MALLOC(size) ==
    LET m == _malloc(size, memory_heap, Entered, read_write_stack_limit)
    IN  Item(m.err, Entered, m.heap, input_buffer, player._stdin_of_this_turn,
             <<>>, m.address)

\* FREE(value): the value of a parameter is a word, or the 'BREAK' that a
\* call of a function with a stray BREAK yields.
FREE(value) ==
    LET p == bin_to_pointer(value.w)
        f == _free(p.v, memory_heap)
        exc == IF value.t # "word" THEN "TypeError"
               ELSE IF p.err # "none" THEN p.err ELSE f.err
    IN  Item(exc, Entered, IF exc = "none" THEN f.heap ELSE memory_heap,
             input_buffer, player._stdin_of_this_turn, <<>>, 0)

\* variable = 0
AFFECT(variable) ==
    LET d == DeclareAffect(variable, global_variables, Entered, memory_heap,
                           read_write_stack_limit)
    IN  Item(d.err, d.lv, memory_heap, input_buffer, player._stdin_of_this_turn,
             <<>>, 0)

\* FOR(variable; 0; 1): the declaration of the loop variable.
FOR(variable) ==
    Item("none", DeclareFor(variable, global_variables, Entered), memory_heap,
         input_buffer, player._stdin_of_this_turn, <<>>, 0)

\* f() for FUNCTION f() END: the frame is pushed, then popped.
CALL ==
    LET p == PushFrame(<<>>, Entered, memory_heap, read_write_stack_limit)
    IN  Item(p.err, IF p.err = "none" THEN Entered ELSE p.lv, memory_heap,
             input_buffer, player._stdin_of_this_turn, <<>>, 0)

\* The end of main, or a generator that has already ended.
StopIteration ==
    Item("StopIteration", local_variables, memory_heap, input_buffer,
         player._stdin_of_this_turn, <<>>, 0)

(***************************************************************************)
(* The host's side.                                                        *)
(***************************************************************************)
\* Player._end without the loose flag.
Mut_end_not_lost(p, score, loose) == [p EXCEPT !._ended = TRUE, !._score = score]

\* Player._end
_end(p, score, loose) ==
    [p EXCEPT !._ended = TRUE, !._score = score, !._loose = loose]

\* Player.loose
loose(p) == _end(p, -1, TRUE)

\* Player.send_game_infos
send_game_infos(p, game_infos) ==
    [p EXCEPT !._game_infos_of_this_turn = Append(@, game_infos)]

\* get_output_line from the end of its loop: how is "no_input", the name of
\* the ExecutionError caught, "end_of_program" or "none".
AfterLoop(p0, how) ==
    LET output == strip(p0.result_out)
        p == [p0 EXCEPT !.pc = "idle",
                        !._stdout_of_this_turn = Append(@, output),
                        !._stderr_of_this_turn = Append(@, <<>>)]
        iteration == IF how = "end_of_program" THEN p.timeout ELSE p.iteration
        None_ == Returned("None", <<>>)
    IN  IF how = "no_input"
        THEN [send_game_infos(send_game_infos(loose(p), NO_INPUT_MSG_ERROR), LastLine)
                 EXCEPT !.returned = None_]
        ELSE IF how \notin {"none", "end_of_program"}
        THEN [send_game_infos(loose(p), how) EXCEPT !.returned = None_]
        ELSE IF iteration >= p.timeout
        THEN [send_game_infos(send_game_infos(loose(p), TIMEOUT_MSG_ERROR), LastLine)
                 EXCEPT !.returned = None_, !.iteration = iteration]
        ELSE [p EXCEPT !.returned = Returned("line", output)]

\* One turn of the loop of get_output_line on what next(self.program) did;
\* an exception that no except clause names leaves get_output_line.
Turn(p0, o) ==
    LET p == [p0 EXCEPT !._stdin_of_this_turn = o.stdin]
        q == [p EXCEPT !.iteration = @ + 1, !.result_out = @ \o o.printed]
    IN  IF o.exc = "none"
        THEN IF Len(q.result_out) = 0 /\ q.iteration < q.timeout THEN q
             ELSE AfterLoop(q, "none")
        ELSE IF o.exc = "IndexError" THEN AfterLoop(p, "no_input")
        ELSE IF o.exc \in ExecutionErrors THEN AfterLoop(p, o.exc)
        ELSE IF o.exc = "StopIteration" THEN AfterLoop(p, "end_of_program")
        ELSE [p EXCEPT !.pc = "idle", !.returned = Returned("raised", <<>>)]

\* next(self.program) inside get_output_line, the program doing o.
Resume(op, o) ==
    /\ player.pc = "loop"
    /\ local_variables' = o.lv
    /\ memory_heap' = o.heap
    /\ input_buffer' = o.buf
    /\ err' = IF o.exc = "StopIteration" THEN err ELSE o.exc
    /\ gens' = IF o.exc = "none" THEN gens ELSE <<>>
    /\ nb_elementary_operations' =
          IF o.exc = "none" THEN nb_elementary_operations + 1
          ELSE nb_elementary_operations
    /\ ret' = [op |-> op, arg |-> 0, res |-> o.res]
    /\ player' = Turn(player, o)
    /\ UNCHANGED <<read_write_stack_limit, global_variables, memory,
                   functions_infos, sig, log, ast, read_only_strings_adress, stdout, other, game>>

Alive == gens # <<>>

HostRead == Alive /\ Resume("READ", READ)

HostPrint(text) == Alive /\ Resume("PRINT", PRINT(text))

HostMalloc(size) == Alive /\ Resume("MALLOC", MALLOC(size))

HostFree(value) == Alive /\ Resume("FREE", FREE(value))

HostAffect(variable) == Alive /\ Resume("affect", AFFECT(variable))

HostFor(variable) == Alive /\ Resume("for", FOR(variable))

HostCall == Alive /\ Resume("call", CALL)

HostStop == player.pc = "loop" /\ Resume("stop", StopIteration)

\* The value the game sends, as the word of the line: int_to_bin for an int,
\* bool_to_bin for a bool.
InputWord(input_value) ==
    IF input_value.type = "bool" THEN bool_to_bin(input_value.v = 1)
    ELSE int_to_bin(input_value.v)

\* Player._send_input_line_nl_with_log
RECURSIVE _send_input_line_nl_with_log(_, _)
_send_input_line_nl_with_log(p, input_msg) ==
    IF input_msg = <<>> THEN p
    ELSE _send_input_line_nl_with_log(
             [p EXCEPT !._stdin_of_this_turn =
                           Append(@, bin_to_string(InputWord(Head(input_msg))))],
             Tail(input_msg))

\* Player.send_input_line_nl
send_input_line_nl(input_msg) ==
    /\ player.pc = "idle"
    /\ Len(player._stdin_of_this_turn) + Len(input_msg) <= MaxLines
    /\ player' = _send_input_line_nl_with_log(player, input_msg)
    /\ UNCHANGED <<mvars, functions_infos, gens, sig, nb_elementary_operations,
                   log, ast, read_only_strings_adress, input_buffer, stdout, other, game>>

\* A Player whose every call has the budget of the first one.
Mut_timeout_always_first(p) == FIRST_MAX_ELEMENTARY_OPERATIONS_TIMEOUT

\* Player._timeout
_timeout(p) ==
    IF p.first_time_out THEN FIRST_MAX_ELEMENTARY_OPERATIONS_TIMEOUT
    ELSE MAX_ELEMENTARY_OPERATIONS_TIMEOUT

\* Player.get_output_line up to its loop.
get_output_line ==
    /\ player.pc = "idle"
    /\ Len(player._stdout_of_this_turn) < MaxTurns
    /\ player' = [player EXCEPT
                    !.timeout = _timeout(player),
                    !.first_time_out = FALSE,
                    !.iteration = 0,
                    !.result_out = <<>>,
                    !.calls = @ + 1,
                    !.pc = "loop"]
    /\ UNCHANGED <<mvars, functions_infos, gens, sig, nb_elementary_operations,
                   log, ast, read_only_strings_adress, input_buffer, stdout, other, game>>

\* The values the game sends: words, and integers no word holds.
IntValue(v) == [type |-> "int", v |-> v]

InputValues ==
    {IntValue(5), [type |-> "bool", v |-> 1],
     IntValue(Pow2(INT_NB_BITS)), IntValue(- Pow2(INT_NB_BITS) - 1)}

InputMessages ==
    {<<v>> : v \in InputValues} \cup {<<IntValue(-1), [type |-> "bool", v |-> 1]>>}

Texts == {<<"x">>, <<"\n">>}

FreeValues == {W(MEMORY_SIZE - MaxSize), W(MEMORY_SIZE), BREAK}

\* A program as get_program_execution_iterator leaves it, and its Player.
InitHost ==
    /\ read_write_stack_limit = 1
    /\ global_variables = <<>>
    /\ local_variables = <<>>
    /\ memory_heap = <<>>
    /\ memory = [a \in 1..(MEMORY_SIZE - 1) |-> W(0)]
    /\ err = "none"
    /\ ret = NoRet
    /\ functions_infos = <<>>
    /\ gens = <<Gen(Node("function", "", "main", 0, <<>>), <<>>)>>
    /\ sig = NoSig
    /\ nb_elementary_operations = 0
    /\ log = <<>>
    /\ ast = <<>>
    /\ read_only_strings_adress = <<>>
    /\ NoHost

NextHost ==
    \/ \E input_msg \in InputMessages : send_input_line_nl(input_msg)
    \/ get_output_line
    \/ HostRead
    \/ \E text \in Texts : HostPrint(text)
    \/ \E size \in {0, MaxSize} : HostMalloc(size)
    \/ \E value \in FreeValues : HostFree(value)
    \/ \E variable \in {"a"} : HostAffect(variable)
    \/ \E variable \in {"i"} : HostFor(variable)
    \/ HostCall
    \/ HostStop

SpecHost == InitHost /\ [][NextHost]_vars

(***************************************************************************)
(* SpecConv: the conversions of converter_sync.py, called on any word and  *)
(* on any integer of a bounded range.  ret keeps the last call (function,  *)
(* argument, result) and err the exception it raised.                      *)
(***************************************************************************)
\* The integers handed to int_to_bin(x, overflow=True) lie within
\* MaxMagnitude * 2^INT_NB_BITS of zero.
MaxMagnitude == 3

AnyWord == 0..(Pow2(INT_NB_BITS) - 1)

InRange == (- Pow2(INT_NB_BITS - 1))..(Pow2(INT_NB_BITS - 1) - 1)

AnyInteger == (- MaxMagnitude * Pow2(INT_NB_BITS))..(MaxMagnitude * Pow2(INT_NB_BITS))

Converted(op, arg, res) == [op |-> op, arg |-> arg, res |-> res]

InitConv ==
    /\ read_write_stack_limit = 1
    /\ global_variables = <<>>
    /\ local_variables = <<>>
    /\ memory_heap = <<>>
    /\ memory = [a \in 1..(MEMORY_SIZE - 1) |-> W(0)]
    /\ err = "none"
    /\ ret = NoRet
    /\ functions_infos = <<>>
    /\ gens = <<>>
    /\ sig = NoSig
    /\ nb_elementary_operations = 0
    /\ log = <<>>
    /\ ast = <<>>
    /\ read_only_strings_adress = <<>>
    /\ NoHost

ConvFrame ==
    UNCHANGED <<read_write_stack_limit, global_variables, local_variables,
                memory_heap, memory, rvars>>

ConvBinToInt(x) ==
    /\ ret' = Converted("bin_to_int", x, bin_to_int(x))
    /\ err' = "none"
    /\ ConvFrame

ConvIntToBin(x) ==
    /\ ret' = Converted("int_to_bin", x, int_to_bin(x))
    /\ err' = "none"
    /\ ConvFrame

ConvIntToBinOverflow(x) ==
    /\ ret' = Converted("int_to_bin_overflow", x, int_to_bin_overflow(x))
    /\ err' = "none"
    /\ ConvFrame

ConvBinToChar(x) ==
    /\ ret' = Converted("bin_to_char", x, bin_to_char(x).v.codepoint)
    /\ err' = bin_to_char(x).err
    /\ ConvFrame

NextConv ==
    \/ \E x \in AnyWord : ConvBinToInt(x)
    \/ \E x \in InRange : ConvIntToBin(x)
    \/ \E x \in AnyInteger : ConvIntToBinOverflow(x)
    \/ \E x \in AnyWord : ConvBinToChar(x)

SpecConv == InitConv /\ [][NextConv]_vars

(***************************************************************************)
(* SpecTwo: a host holds two SynCProgram instances and advances either of  *)
(* them, one transfer of control at a time, in any interleaving.  The      *)
(* variables hold the attributes of the instance being advanced, other     *)
(* the attributes of the idle one; sys.stdout is given to each instance as *)
(* Player.get_output_line does, a buffer of its own.                       *)
(***************************************************************************)
\* The attributes of the instance being advanced.
Attributes(id) ==
    [id |-> id,
     functions_infos |-> functions_infos,
     read_write_stack_limit |-> read_write_stack_limit,
     global_variables |-> global_variables,
     local_variables |-> local_variables,
     memory_heap |-> memory_heap,
     memory |-> memory,
     err |-> err,
     gens |-> gens,
     sig |-> sig,
     nb_elementary_operations |-> nb_elementary_operations,
     log |-> log,
     input_buffer |-> input_buffer,
     stdout |-> stdout]

\* An attribute that __init__ would set on the class: one value for all
\* the instances.
Mut_class_attribute(own, shared) == shared

\* An attribute set on self by __init__: every instance has its own.
InstanceAttribute(own, shared) == own

\* The programs of the two instances.
TwoPrograms == {AssignProgram, MixProgram, FatalCall("h", 1)}

InitTwo ==
    /\ \E fi \in TwoPrograms :
          LET loaded == LoadedProgram(fi, 1)
          IN  /\ functions_infos = loaded.functions_infos
              /\ read_write_stack_limit = loaded.read_write_stack_limit
              /\ global_variables = loaded.global_variables
              /\ local_variables = loaded.local_variables
              /\ memory_heap = loaded.memory_heap
              /\ memory = loaded.memory
              /\ err = loaded.err
              /\ gens = loaded.gens
              /\ sig = loaded.sig
              /\ nb_elementary_operations = loaded.nb_elementary_operations
              /\ log = loaded.log
              /\ input_buffer = loaded.input_buffer
              /\ stdout = loaded.stdout
    /\ \E fi \in TwoPrograms : other = LoadedProgram(fi, 2)
    /\ ret = NoRet
    /\ ast = <<>>
    /\ read_only_strings_adress = <<>>
    /\ player = NewPlayer
    /\ game = NoGame

\* The host turns to the other instance.
Switch ==
    /\ other.id # 0
    /\ other' = Attributes(3 - other.id)
    /\ functions_infos' = other.functions_infos
    /\ read_write_stack_limit' = other.read_write_stack_limit
    /\ global_variables' = other.global_variables
    /\ local_variables' = InstanceAttribute(other.local_variables, local_variables)
    /\ memory_heap' = InstanceAttribute(other.memory_heap, memory_heap)
    /\ memory' = InstanceAttribute(other.memory, memory)
    /\ err' = other.err
    /\ gens' = other.gens
    /\ sig' = other.sig
    /\ nb_elementary_operations' =
          InstanceAttribute(other.nb_elementary_operations, nb_elementary_operations)
    /\ log' = other.log
    /\ input_buffer' = InstanceAttribute(other.input_buffer, input_buffer)
    /\ stdout' = other.stdout
    /\ UNCHANGED <<ret, ast, read_only_strings_adress, player, game>>

NextTwo ==
    \/ ExecuteFunction
    \/ ExecuteBlock
    \/ ExecuteAtom
    \/ ExecuteAffect
    \/ ExecuteBinaryoperator
    \/ ExecuteCall
    \/ ExecuteIfexpr
    \/ ExecuteForexpr
    \/ ExecuteWhileexpr
    \/ ExecuteBreakrule
    \/ ExecuteContinuerule
    \/ ExecuteReturnrule
    \/ main_function_iterator
    \/ Switch

SpecTwo == InitTwo /\ [][NextTwo]_vars

(***************************************************************************)
(* SpecArith: main_function_iterator runs x = a op b for every integer     *)
(* operator and every pair of words, written as the integer literals that  *)
(* encode them.                                                            *)
(***************************************************************************)
ArithOperators == {"+", "-", "*", "/", "%"}

\* FUNCTION main() x = a op b END
ArithProgram(operator, a, b) ==
    << Function("main", <<>>, <<Affect(97, "x", Op(Integer(a), operator, Integer(b)))>>) >>

ArithPrograms ==
    {ArithProgram(operator, a, b) : operator \in ArithOperators, a \in InRange, b \in InRange}

InitArith ==
    /\ \E fi \in ArithPrograms :
          LET loaded == LoadedProgram(fi, 1)
          IN  /\ functions_infos = loaded.functions_infos
              /\ read_write_stack_limit = loaded.read_write_stack_limit
              /\ global_variables = loaded.global_variables
              /\ local_variables = loaded.local_variables
              /\ memory_heap = loaded.memory_heap
              /\ memory = loaded.memory
              /\ err = loaded.err
              /\ gens = loaded.gens
              /\ sig = loaded.sig
              /\ nb_elementary_operations = loaded.nb_elementary_operations
              /\ log = loaded.log
    /\ ret = NoRet
    /\ ast = <<>>
    /\ read_only_strings_adress = <<>>
    /\ NoHost

NextArith ==
    \/ ExecuteFunction
    \/ ExecuteBlock
    \/ ExecuteAtom
    \/ ExecuteAffect
    \/ ExecuteBinaryoperator
    \/ main_function_iterator

SpecArith == InitArith /\ [][NextArith]_vars

(***************************************************************************)
(* SpecGame: Referee.play with BeatThePlanReferee.  A player is the part   *)
(* of referee.Player the match reads and writes; its program is seen       *)
(* through what a call of get_output_line gives: None, a line, or an       *)
(* exception that no except clause names.  The zones of the construction   *)
(* site are reduced to what the control of the match depends on: whether a *)
(* player has started a job, which workers work, and the scores.           *)
(***************************************************************************)
\* beat_the_plan_referee.LAST_TURN and WIN_SCORE (200 and 16), scaled down.
LAST_TURN == 2

WIN_SCORE == 1

NB_WORKERS == 2
\* The players of a match.
MaxPlayers == 2

\* Player.__init__ on a script that check_program accepts or not; run tells
\* whether get_output_line has been called, that is whether the program of
\* the player has been run.
GamePlayer(valid_program) ==
    [_ended |-> FALSE, _loose |-> FALSE, _score |-> 0,
     valid_program |-> valid_program, run |-> FALSE]

\* Player.is_playing
is_playing(p) == ~p._ended

\* Player.win
win(p, score) == _end(p, score, FALSE)

\* BeatThePlanReferee.destroy
destroy(p) == loose(p)

Playing(players) == {i \in 1..Len(players) : is_playing(players[i])}

\* An end_all_players that makes every player win.
Mut_end_all_players_without_test(players, scores) ==
    [i \in 1..Len(players) |-> win(players[i], scores[i])]

\* BeatThePlanReferee.end_all_players
end_all_players(players, scores) ==
    [i \in 1..Len(players) |->
        IF is_playing(players[i]) THEN win(players[i], scores[i]) ELSE players[i]]

\* BeatThePlanReferee.check_win: [stop, players].
check_win(players, scores) ==
    LET winners == {i \in Playing(players) : scores[i] >= WIN_SCORE}
        won == [i \in 1..Len(players) |->
                   IF i \in winners THEN win(players[i], scores[i]) ELSE players[i]]
    IN  IF winners # {}
        THEN [stop |-> TRUE, players |-> end_all_players(won, scores)]
        ELSE [stop |-> FALSE, players |-> players]

\* _game_turn up to read_output_from_players: [stop, players]; stop when
\* the turn is over at once.
FirstChecks(g) ==
    LET final_players == Playing(g.players)
        last == CHOOSE i \in final_players : TRUE
    IN  IF g.turn > LAST_TURN
        THEN [stop |-> TRUE, players |-> end_all_players(g.players, g.scores)]
        ELSE IF Cardinality(final_players) = 1
        THEN [stop |-> TRUE,
              players |-> [g.players EXCEPT ![last] = win(@, g.scores[last])]]
        ELSE check_win(g.players, g.scores)

\* Referee.play after self._game_turn(turn): the last turns are recorded,
\* turn += 1, and the loop is left when no player plays.
AfterGameTurn(g) ==
    [g EXCEPT !._last_turns =
                 [i \in 1..Len(g.players) |->
                     IF i \in g.not_ended_players /\ is_playing(g.players[i])
                     THEN g.turn ELSE g._last_turns[i]],
              !.turn = @ + 1,
              !.player = 0,
              !.worker = 0,
              !.pc = IF Playing(g.players) = {} THEN "over" ELSE "turn"]

\* read_output_from_players goes to the next player that is playing, from
\* player number i on; check_zones_constraints follows the last one.
NextPlayer(g, i) ==
    LET rest == {j \in i..Len(g.players) : is_playing(g.players[j])}
    IN  IF rest = {} THEN [g EXCEPT !.pc = "check", !.player = 0, !.worker = 0]
        ELSE [g EXCEPT !.pc = "read", !.worker = 1,
                       !.player = CHOOSE j \in rest : \A k \in rest : j <= k]

\* read_output_from_players after read_player_output: the next worker of
\* the same player, or the next player.
NextWorker(g) ==
    IF g.worker < NB_WORKERS THEN [g EXCEPT !.worker = @ + 1]
    ELSE NextPlayer(g, g.player + 1)

\* The lines a program prints: PASS, a command that is no command (not
\* three integers, outside the grid, no job), the command of a job of the
\* player already started, the command of a job not started yet.
Commands == {"PASS", "malformed", "started", "job"}

\* BeatThePlanReferee.read_player_output for the worker g.worker of g.player.
read_player_output(g, command) ==
    LET i == g.player
        w == g.worker
    IN  IF command = "PASS" THEN g
        ELSE IF g.working[i][w] \/ command \in {"malformed", "started"}
        THEN [g EXCEPT !.players[i] = destroy(@)]
        ELSE [g EXCEPT !.working[i][w] = TRUE, !.started[i] = TRUE]

GameFrame ==
    UNCHANGED <<mvars, functions_infos, gens, sig, nb_elementary_operations, log,
                ast, read_only_strings_adress, input_buffer, player, stdout, other>>

\* Referee.play up to its loop: the players whose program is not valid have
\* lost, and BeatThePlanReferee._init has reset the scores and the workers.
InitGame ==
    /\ read_write_stack_limit = 1
    /\ global_variables = <<>>
    /\ local_variables = <<>>
    /\ memory_heap = <<>>
    /\ memory = [a \in 1..(MEMORY_SIZE - 1) |-> W(0)]
    /\ err = "none"
    /\ ret = NoRet
    /\ functions_infos = <<>>
    /\ gens = <<>>
    /\ sig = NoSig
    /\ nb_elementary_operations = 0
    /\ log = <<>>
    /\ ast = <<>>
    /\ read_only_strings_adress = <<>>
    /\ input_buffer = <<>>
    /\ player = NewPlayer
    /\ stdout = <<>>
    /\ other = NoProgram
    /\ \E valid \in [1..MaxPlayers -> BOOLEAN] :
          game = [pc |-> "turn",
                  turn |-> 1,
                  player |-> 0,
                  worker |-> 0,
                  players |-> [i \in 1..MaxPlayers |->
                                  IF valid[i] THEN GamePlayer(TRUE)
                                  ELSE loose(GamePlayer(FALSE))],
                  _last_turns |-> [i \in 1..MaxPlayers |-> IF valid[i] THEN 0 ELSE 1],
                  not_ended_players |-> {},
                  scores |-> [i \in 1..MaxPlayers |-> 0],
                  working |-> [i \in 1..MaxPlayers |-> [w \in 1..NB_WORKERS |-> FALSE]],
                  started |-> [i \in 1..MaxPlayers |-> FALSE]]

\* The start of a turn of the loop of Referee.play: _game_turn up to the
\* first call of get_output_line, or the whole turn when _game_turn returns
\* at once.
GameTurn ==
    /\ game.pc = "turn"
    /\ LET g == [game EXCEPT !.not_ended_players = Playing(game.players)]
           first == FirstChecks(g)
       IN  game' = IF first.stop THEN AfterGameTurn([g EXCEPT !.players = first.players])
                   ELSE NextPlayer(g, 1)
    /\ GameFrame

\* player.get_output_line() gives None: the player has lost, and the loop
\* on its workers is left.
GameOutputNone ==
    /\ game.pc = "read"
    /\ LET i == game.player
           g == [game EXCEPT !.players[i] = loose([@ EXCEPT !.run = TRUE])]
       IN  game' = NextPlayer(g, i + 1)
    /\ GameFrame

\* player.get_output_line() gives a line, which read_player_output reads.
GameOutputLine(command) ==
    /\ game.pc = "read"
    /\ command = "started" => game.started[game.player]
    /\ LET g == [game EXCEPT !.players[game.player].run = TRUE]
       IN  game' = NextWorker(read_player_output(g, command))
    /\ GameFrame

\* player.get_output_line() raises an exception that it does not catch,
\* which leaves read_output_from_players, _game_turn and Referee.play.
GameOutputRaises ==
    /\ game.pc = "read"
    /\ game' = [game EXCEPT !.pc = "raised", !.players[game.player].run = TRUE]
    /\ GameFrame

\* check_zones_constraints can only find an error on the zones of a player
\* that plays and has started a job.
Breakable == {i \in Playing(game.players) : game.started[i]}

\* The players after check_zones_constraints has destroyed those of broken.
Checked(broken) ==
    [i \in 1..Len(game.players) |->
        IF i \in broken THEN destroy(game.players[i]) ELSE game.players[i]]

\* end_finished_jobs can only stop a worker that works, of a player that
\* still plays.
Finishable(broken) ==
    {iw \in (1..Len(game.players)) \X (1..NB_WORKERS) :
        iw[1] \in Playing(Checked(broken)) /\ game.working[iw[1]][iw[2]]}

\* The players that can be given a point at the end of the turn.
Scoring(broken) ==
    {i \in Playing(Checked(broken)) :
        /\ \E w \in 1..NB_WORKERS : game.working[i][w]
        /\ game.scores[i] < WIN_SCORE}

\* The rest of _game_turn, then the end of the turn in Referee.play:
\* check_zones_constraints destroys the players of broken, and
\* end_finished_jobs stops the workers of finished and gives a point to the
\* players of points.
GameTurnEnd(broken, finished, points) ==
    /\ game.pc = "check"
    /\ broken \subseteq Breakable
    /\ finished \subseteq Finishable(broken)
    /\ points \subseteq Scoring(broken)
    /\ game' = AfterGameTurn(
          [game EXCEPT
              !.players = Checked(broken),
              !.working = [i \in 1..Len(game.players) |->
                              [w \in 1..NB_WORKERS |->
                                  game.working[i][w] /\ <<i, w>> \notin finished]],
              !.scores = [i \in 1..Len(game.players) |->
                              IF i \in points THEN game.scores[i] + 1
                              ELSE game.scores[i]]])
    /\ GameFrame

NextGame ==
    \/ GameTurn
    \/ GameOutputNone
    \/ \E command \in Commands : GameOutputLine(command)
    \/ GameOutputRaises
    \/ \E broken \in SUBSET Breakable :
          \E finished \in SUBSET Finishable(broken), points \in SUBSET Scoring(broken) :
              GameTurnEnd(broken, finished, points)

SpecGame == InitGame /\ [][NextGame]_vars

(***************************************************************************)
(* The segments, as the data model lays them out.                          *)
(***************************************************************************)
\* The last word of the stack segment [R + G, R + G + L).
StackLast(lv) == read_write_stack_limit + Len(global_variables) + SumLen(lv) - 1

StackWords(lv) ==
    (read_write_stack_limit + Len(global_variables))..StackLast(lv)

BlockWords(b) == b[1]..(b[1] + b[2] - 1)

HeapWords(heap) == UNION {BlockWords(heap[i]) : i \in 1..Len(heap)}

HeapFirst(heap) == IF Len(heap) = 0 THEN MEMORY_SIZE ELSE heap[Len(heap)][1]

BlocksDisjoint(heap) ==
    \A i, j \in 1..Len(heap) :
        i # j => BlockWords(heap[i]) \cap BlockWords(heap[j]) = {}

HeapOk(heap, lv) ==
    /\ BlocksDisjoint(heap)
    /\ \A a \in HeapWords(heap) : StackLast(lv) < a /\ a < MEMORY_SIZE

IsAllocation(r) == r.op \in {"MALLOC", "MALLOC_STRUCT"} /\ r.arg > 0

(***************************************************************************)
(* C1.  Allocator invariant: the heap starts with disjoint blocks above    *)
(* the stack and below the top of memory, and every allocate or free call  *)
(* that is not refused (no error, no NULL) keeps it so: any two blocks are *)
(* disjoint and every word of a block lies strictly above the last stack   *)
(* word and strictly below MEMORY_SIZE.                                    *)
(***************************************************************************)
C1_AllocatorInvariant ==
    /\ HeapOk(memory_heap, local_variables)
    /\ [][ ( /\ ret'.op \in {"MALLOC", "MALLOC_STRUCT", "FREE"}
             /\ err' = "none"
             /\ (IsAllocation(ret') => ret'.res # NULL_ADDRESS)
             /\ HeapOk(memory_heap, local_variables) )
           => HeapOk(memory_heap', local_variables') ]_vars

(***************************************************************************)
(* C2.  In every state of a run that no error has ended, no word belongs   *)
(* both to the stack segment and to an allocated heap block.               *)
(***************************************************************************)
C2_StackHeapDisjoint ==
    err = "none" => StackWords(local_variables) \cap HeapWords(memory_heap) = {}

(***************************************************************************)
(* C7.  FREE(p), p a pointer: when p is the start address of a block of    *)
(* the heap list the call raises nothing and removes exactly that block,   *)
(* the other blocks keeping their place and order; for any other p it      *)
(* raises FreeNotAllocatedPointer and leaves the heap list unchanged.      *)
(***************************************************************************)
C7_FreeExactStart ==
    [][ (ret'.op = "FREE" /\ ret'.arg < MEMORY_SIZE) =>
          LET p == ret'.arg
              starts == {i \in 1..Len(memory_heap) : memory_heap[i][1] = p}
          IN  IF starts # {}
              THEN /\ err' = "none"
                   /\ \E i \in starts :
                        memory_heap' = [j \in 1..(Len(memory_heap) - 1) |->
                                          IF j < i THEN memory_heap[j]
                                          ELSE memory_heap[j + 1]]
              ELSE /\ err' = "FreeNotAllocatedPointer"
                   /\ memory_heap' = memory_heap ]_vars

\* A FREE of an address inside a block, not its start, was refused.
C7_Witness ==
    /\ ret.op = "FREE"
    /\ err = "FreeNotAllocatedPointer"
    /\ \E i \in 1..Len(memory_heap) :
         memory_heap[i][1] < ret.arg /\ ret.arg < memory_heap[i][1] + memory_heap[i][2]

(***************************************************************************)
(* C8.  Whenever the block chosen for an allocation of size > 0 does not   *)
(* start strictly above the last stack word, MALLOC (with or without       *)
(* initial values) and MALLOC_STRUCT return NULL, raise nothing and leave  *)
(* the heap list unchanged.                                                *)
(***************************************************************************)
C8_NullOnCollision ==
    [][ ( /\ IsAllocation(ret')
          /\ malloc_place(ret'.arg, memory_heap).address <= StackLast(local_variables) )
        => ( /\ ret'.res = NULL_ADDRESS
             /\ err' = "none"
             /\ memory_heap' = memory_heap ) ]_vars

(***************************************************************************)
(* C9.  An allocation of size > 0 that is not refused puts the block in    *)
(* the first gap, scanning from the highest address down, that holds at    *)
(* least size free words (a gap of exactly size words included); with no   *)
(* such gap it puts it right below the lowest block; on an empty heap the  *)
(* block ends at MEMORY_SIZE - 1.                                          *)
(***************************************************************************)
GapWords(heap, i) == previous_address(heap, i) - (heap[i][1] + heap[i][2])

C9_FirstFit ==
    [][ (IsAllocation(ret') /\ err' = "none" /\ ret'.res # NULL_ADDRESS) =>
          LET size == ret'.arg
              gaps == {i \in 1..Len(memory_heap) : GapWords(memory_heap, i) >= size}
              g == CHOOSE i \in gaps : \A j \in gaps : i <= j
          IN  IF Len(memory_heap) = 0 THEN ret'.res = MEMORY_SIZE - size
              ELSE IF gaps # {}
              THEN /\ memory_heap[g][1] + memory_heap[g][2] <= ret'.res
                   /\ ret'.res + size <= previous_address(memory_heap, g)
              ELSE ret'.res = memory_heap[Len(memory_heap)][1] - size ]_vars

(***************************************************************************)
(* C10.  Whenever a local is declared (by a first plain assignment, as a   *)
(* FOR variable, or as the parameters of a pushed frame, a frame without   *)
(* parameters included) and the address just past the last stack word      *)
(* reaches the start of the lowest heap block (MEMORY_SIZE with no block), *)
(* the operation raises MemoryExceededError.                               *)
(***************************************************************************)
C10_MemoryExceeded ==
    [][ ( /\ ret'.op \in {"affect", "for", "call"}
          /\ local_variables' # local_variables
          /\ StackLast(local_variables') + 1 >= HeapFirst(memory_heap) )
        => err' = "MemoryExceededError" ]_vars


(***************************************************************************)
(* C20.  After any sequence of allocate and free calls the heap list is    *)
(* sorted by strictly descending start address: each block starts strictly *)
(* below the block listed before it, the first being nearest to the top.   *)
(***************************************************************************)
C20_HeapSortedDescending ==
    \A i \in 1..(Len(memory_heap) - 1) : memory_heap[i][1] > memory_heap[i + 1][1]

\* An allocation went into a gap a FREE had opened between two blocks: the
\* heap holds three blocks, the one just allocated being the middle one.
C20_Witness ==
    /\ IsAllocation(ret)
    /\ err = "none"
    /\ Len(memory_heap) = 3
    /\ memory_heap[2][1] = ret.res

(***************************************************************************)
(* The order in which the statements of a program start according to the   *)
(* control-flow rules of the language, for programs whose conditions and   *)
(* loop bounds are literals: [log, out], out telling how the statements    *)
(* ended (NORMAL, BREAK, CONTINUE or RETURN).                              *)
(***************************************************************************)
RECURSIVE RefStmts(_, _)
RECURSIVE RefStmt(_, _)
RECURSIVE RefLoop(_, _, _)
RECURSIVE RefIf(_, _, _)

RefId(s) == IF s.v > 0 THEN <<s.v>> ELSE <<>>

\* A call runs the body of the function up to its end or to a RETURN.
RefCall(fi, e) ==
    RefId(e) \o (IF Declared(fi, e.name) THEN RefStmts(fi, Info(fi, e.name).tree.kids).log
                 ELSE <<>>)

RefExpr(fi, e) == IF e.k = "call" THEN RefCall(fi, e) ELSE <<>>

RefStmts(fi, stmts) ==
    IF stmts = <<>> THEN [log |-> <<>>, out |-> "NORMAL"]
    ELSE LET r == RefStmt(fi, Head(stmts))
             rest == RefStmts(fi, Tail(stmts))
         IN  IF r.out # "NORMAL" THEN r
             ELSE [log |-> r.log \o rest.log, out |-> rest.out]

\* The first branch whose condition is TRUE, else the ELSE block, else nothing.
RefIf(fi, s, i) ==
    IF i <= Len(s.kids) \div 2
    THEN IF s.kids[2 * i - 1].name = "TRUE" THEN RefStmts(fi, s.kids[2 * i].kids)
         ELSE RefIf(fi, s, i + 1)
    ELSE IF Len(s.kids) % 2 = 1 THEN RefStmts(fi, s.kids[Len(s.kids)].kids)
    ELSE [log |-> <<>>, out |-> "NORMAL"]

\* n iterations of a body: BREAK ends the loop, CONTINUE the iteration, RETURN
\* goes through.
RefLoop(fi, body, n) ==
    IF n <= 0 THEN [log |-> <<>>, out |-> "NORMAL"]
    ELSE LET r == RefStmts(fi, body)
             rest == RefLoop(fi, body, n - 1)
         IN  IF r.out = "BREAK" THEN [log |-> r.log, out |-> "NORMAL"]
             ELSE IF r.out = "RETURN" THEN r
             ELSE [log |-> r.log \o rest.log, out |-> rest.out]

RefStmt(fi, s) ==
    CASE s.k = "affect" -> [log |-> RefId(s) \o RefExpr(fi, s.kids[1]), out |-> "NORMAL"]
      [] s.k = "call" -> [log |-> RefCall(fi, s), out |-> "NORMAL"]
      [] s.k = "breakrule" -> [log |-> RefId(s), out |-> "BREAK"]
      [] s.k = "continuerule" -> [log |-> RefId(s), out |-> "CONTINUE"]
      [] s.k = "returnrule" -> [log |-> RefId(s) \o RefExpr(fi, s.kids[1]), out |-> "RETURN"]
      [] s.k = "ifexpr" -> RefIf(fi, s, 1)
      [] s.k = "forexpr" -> RefLoop(fi, s.kids[3].kids, s.kids[2].v - s.kids[1].v)
      [] s.k = "whileexpr" ->
            IF s.kids[1].name = "TRUE" THEN RefLoop(fi, s.kids[2].kids, MaxOps)
            ELSE [log |-> <<>>, out |-> "NORMAL"]

RefMain(fi) == RefStmts(fi, Info(fi, "main").tree.kids).log

IsPrefix(s, t) == Len(s) <= Len(t) /\ SubSeq(t, 1, Len(s)) = s

\* The run follows the reference order, and has followed all of it at its end.
FollowsRef ==
    /\ IsPrefix(log, RefMain(functions_infos))
    /\ sig.d = "end" => log = RefMain(functions_infos)

\* The generator on top has just yielded (it is the one the item comes from).
Yielded(kd) ==
    /\ sig.d = "up"
    /\ sig.at = Len(gens) - 1
    /\ gens[Len(gens)].node.k = kd
    /\ gens[Len(gens)].pc = "done"

\* The calls of execute_function in progress.
LiveFunctions == {j \in 1..Len(gens) : gens[j].node.k = "function" /\ gens[j].pc # "start"}

(***************************************************************************)
(* C3.  A BREAK ends exactly the innermost FOR or WHILE that encloses it,  *)
(* however many IFs stand between them: no IF consumes it, the rest of the *)
(* inner loop's body is skipped, and an outer loop goes on with the        *)
(* statement that follows the inner loop.  Checked on every program of     *)
(* BreakPrograms: the statements start in the reference order, all of it.  *)
(***************************************************************************)
C3_BreakEndsNearestLoop ==
    functions_infos \in BreakPrograms => err = "none" /\ FollowsRef

\* A BREAK under IFs in a WHILE inside a FOR: the FOR ran its two iterations,
\* each time going on with y = 1 (3), and x = 1 (2) never ran.
C3_Witness ==
    /\ functions_infos = BreakProgram(MaxIfDepth, "WHILE", "FOR")
    /\ sig.d = "end"
    /\ log = <<1, 3, 1, 3, 4>>

(***************************************************************************)
(* C4.  A RETURN goes unconsumed through the blocks, IFs and loops of the  *)
(* function body up to the call: the call yields the returned word, no     *)
(* later statement of the callee starts, the callee's frame is popped, and *)
(* a loop of the caller around the call keeps iterating.                   *)
(***************************************************************************)
C4_ReturnReachesCall ==
    /\ functions_infos \in ReturnPrograms => err = "none" /\ FollowsRef
    /\ (Yielded("call") /\ gens[Len(gens)].ended.t = "RETURN") =>
          /\ sig.val = Payload(gens[Len(gens)].ended)
          /\ Len(local_variables) = Cardinality(LiveFunctions)

\* RETURN 7 under a WHILE in a FOR of f, called from a FOR of main: the call
\* has just yielded 7 for the second time, back in main's frame.
C4_Witness ==
    /\ functions_infos = ReturnProgram(<<"FOR", "WHILE">>, "FOR", "assigned")
    /\ Yielded("call")
    /\ gens[Len(gens)].ended = RETURN(W(7))
    /\ sig.val = W(7)
    /\ log = <<3, 1, 3, 1>>
    /\ Len(local_variables) = 1

(***************************************************************************)
(* C5.  A BREAK or CONTINUE stays inside the function that executes it: it *)
(* is handed only to blocks, IFs and loops, never to the function's call   *)
(* boundary; no call yields it as its value; no memory word holds it.      *)
(***************************************************************************)
C5_SignalStaysInFunction ==
    /\ (sig.d = "up" /\ sig.val.t \in Signals) =>
          /\ sig.at >= 1
          /\ gens[sig.at].node.k \in {"block", "ifexpr", "forexpr", "whileexpr"}
          /\ gens[Len(gens)].node.k # "call"
    /\ \A a \in DOMAIN memory : memory[a].t \notin Signals

(***************************************************************************)
(* C6.  A call of a function of the program whose body ended without a     *)
(* RETURN yields the word 0, whatever statements the body ran (programs    *)
(* whose BREAK and CONTINUE all sit in loops).                             *)
(***************************************************************************)
C6_NoReturnYieldsZero ==
    ( /\ functions_infos \notin StrayPrograms
      /\ Yielded("call")
      /\ Declared(functions_infos, gens[Len(gens)].node.name)
      /\ gens[Len(gens)].ended = None )
    => sig.val = W(int_to_bin(0))

\* The step in which a call of ELEMENTARY_OPERATIONS computes its result.
CountAsked ==
    /\ sig.d = "run"
    /\ sig.at \in 1..Len(gens)
    /\ gens[sig.at].node.k = "call"
    /\ gens[sig.at].node.name = "ELEMENTARY_OPERATIONS"

\* An item reaches the driver: elementary (sig.el) or structural.
Delivered == sig.d = "up" /\ sig.at = 0

\* The counter never decreases, takes 1 for each elementary item delivered to
\* the driver and 0 for any other step.
CounterStep ==
    /\ nb_elementary_operations' >= nb_elementary_operations
    /\ (Delivered /\ sig.el) => nb_elementary_operations' = nb_elementary_operations + 1
    /\ ~ (Delivered /\ sig.el) => nb_elementary_operations' = nb_elementary_operations

OutOfMemory(a) == a <= 0 \/ a >= MEMORY_SIZE

\* The write at the addresses of as, one after the other, is answered as it
\* must: the first address outside the memory raises the memory-access error,
\* the first one below R the read-only violation, and nothing before it.
RECURSIVE WritesAnswered(_)
WritesAnswered(as) ==
    IF as = <<>> THEN TRUE
    ELSE IF OutOfMemory(Head(as)) THEN err' = "MemoryAccessError"
    ELSE IF Head(as) < read_write_stack_limit THEN err' = "ReadOnlyMemoryWriteError"
    ELSE WritesAnswered(Tail(as))

ReadAnswered(a) == OutOfMemory(a) => err' = "MemoryAccessError"

\* The address of the variable a plain assignment is about to write.
AffectAddress(variable) ==
    _get_variable_address(variable, global_variables,
        DeclareFor(variable, global_variables, local_variables),
        read_write_stack_limit).address

\* The string I2S(value, p, size) stores, and the addresses it writes.
I2SString(value, size) == Slice(str(bin_to_int(value)), bin_to_int(size))

I2SAddresses(p, s) == <<p + Len(s)>> \o [i \in 1..Len(s) |-> p + i - 1]

(***************************************************************************)
(* C11.  After the load the read-only boundary R never changes and no word *)
(* at an address in [1, R) is ever modified; every write (plain, array     *)
(* element, structure field or dereference assignment, MALLOC initial      *)
(* value, I2S) at an address below R raises ReadOnlyMemoryWriteError, and  *)
(* every read or write at an address <= 0 or >= MEMORY_SIZE raises         *)
(* MemoryAccessError.                                                      *)
(***************************************************************************)
C11_ReadOnlySegment ==
    [][ /\ read_write_stack_limit' = read_write_stack_limit
        /\ \A a \in 1..(read_write_stack_limit - 1) : memory'[a] = memory[a]
        /\ \A v \in Names, w \in Words :
             (AccAffect(v, w) /\ err' # "MemoryExceededError")
                => WritesAnswered(<<AffectAddress(v)>>)
        /\ \A p \in Pointers \ {MEMORY_SIZE}, w \in Words :
             /\ \A i \in Indexes :
                  AccArrayaffect(p, i, w) => WritesAnswered(<<p + bin_to_int(i)>>)
             /\ \A f \in Fields :
                  AccStructaffect(p, f, w) => WritesAnswered(<<p + f>>)
             /\ AccDerefaffect(p, w) => WritesAnswered(<<p>>)
        /\ \A size \in 1..MaxSize, w \in Words :
             AccMalloc(size, <<w>>) =>
               WritesAnswered(<<_malloc(size, memory_heap, local_variables,
                                        read_write_stack_limit).address>>)
        /\ \A p \in Pointers \ {MEMORY_SIZE}, size \in 0..1 :
             AccI2S(5, p, size) => WritesAnswered(I2SAddresses(p, I2SString(5, size)))
        /\ \A p \in Pointers \ {MEMORY_SIZE} :
             /\ \A i \in Indexes : AccArraycall(p, i) => ReadAnswered(p + bin_to_int(i))
             /\ \A f \in Fields : AccStructcall(p, f) => ReadAnswered(p + f)
             /\ AccDeref(p) => ReadAnswered(p)
      ]_vars

\* A write below R was refused, the static string still in place: the program
\* holds the string "a" at address 1 and its NUL at address 2.
C11_Witness ==
    /\ err = "ReadOnlyMemoryWriteError"
    /\ read_write_stack_limit = 3
    /\ memory[1] = W(97) /\ memory[2] = W(0)

(***************************************************************************)
(* C19.  Right after a MALLOC(size) without initial values has returned a  *)
(* pointer p that is not NULL, each of the words p .. p + size - 1 reads   *)
(* as 0, whatever was written, allocated or freed there before.            *)
(***************************************************************************)
C19_MallocReadsZero ==
    [][ \A size \in 1..MaxSize :
          (AccMalloc(size, <<>>) /\ err' = "none") =>
             LET p == _malloc(size, memory_heap, local_variables,
                              read_write_stack_limit).address
             IN  p # NULL_ADDRESS =>
                   \A a \in p..(p + size - 1) : _get_memory(memory', a).v = W(0)
      ]_vars
(***************************************************************************)
(* Claims on the load (SpecLoad).  The defects of a program are read off   *)
(* its tree, without running the load.                                     *)
(***************************************************************************)
Loaded == ret.op = "load"

DeclaredGlobals == [i \in 1..Len(ast.globals) |-> ast.globals[i].variable]

\* Two functions of one name, or a function with a parameter named twice.
Step1Defect ==
    \/ \E i, j \in 1..Len(ast.functions) :
          i # j /\ ast.functions[i].name = ast.functions[j].name
    \/ \E f \in 1..Len(ast.functions) :
          \E i, j \in 1..Len(ast.functions[f].parameters) :
              i # j /\ ast.functions[f].parameters[i] = ast.functions[f].parameters[j]

StringLiterals ==
    {TreeLeaves(ast)[i].name : i \in {j \in 1..Len(TreeLeaves(ast)) :
                                          TreeLeaves(ast)[j].lit = "string"}}

\* The character codes a literal stands for, an escape giving one code.
DecodedCodes(raw) ==
    CASE raw = "" -> <<>>
      [] raw = "a" -> <<97>>
      [] raw = "b" -> <<98>>
      [] raw = "a\\0" -> <<97, 0>>
      [] raw = "\\n" -> <<10>>
      [] raw = "\t" -> <<9>>

DecodedLength(raw) == Len(DecodedCodes(raw))

RECURSIVE Footprint(_)
Footprint(raws) ==
    IF raws = {} THEN 0
    ELSE LET raw == CHOOSE x \in raws : TRUE
         IN  DecodedLength(raw) + 1 + Footprint(raws \ {raw})

\* A literal the scan refuses, or strings that do not fit in the memory.
Step2Defect ==
    \/ "\t" \in StringLiterals
    \/ \E i \in 1..Len(TreeLeaves(ast)) :
          /\ TreeLeaves(ast)[i].lit = "integer"
          /\ \/ TreeLeaves(ast)[i].v >= Pow2(INT_NB_BITS - 1)
             \/ TreeLeaves(ast)[i].v < - Pow2(INT_NB_BITS - 1)
    \/ 1 + Footprint(StringLiterals) > MEMORY_SIZE

MainDefect ==
    \/ \A f \in 1..Len(ast.functions) : ast.functions[f].name # "main"
    \/ \E f \in 1..Len(ast.functions) :
          ast.functions[f].name = "main" /\ ast.functions[f].parameters # <<>>

\* A global named as another global or as a parameter of a function.
GlobalClash ==
    \/ \E i, j \in 1..Len(DeclaredGlobals) : i # j /\ DeclaredGlobals[i] = DeclaredGlobals[j]
    \/ \E i \in 1..Len(DeclaredGlobals) : \E f \in 1..Len(ast.functions) :
          InSeq(DeclaredGlobals[i], ast.functions[f].parameters)

GlobalDefect ==
    \/ GlobalClash
    \/ 1 + Footprint(StringLiterals) + Len(DeclaredGlobals) > MEMORY_SIZE

Step1Kinds == {"SameNameFunctionError", "SameParametersNameFunctionError"}

Step2Kinds == {"NonValidCharacterError", "NonValidIntegerError", "MemoryAccessError"}

MainKinds == {"NoMainFunctionError", "MainFunctionWithParametersError"}

GlobalKinds ==
    {"SameGlobalVariableNameError",
     "GlobalVariableAndFunctionParameterWithSameNameError", "MemoryAccessError"}

\* C16 as stated: the load reports the error of the earliest failing step in
\* the order collect, literals and strings, main, globals; a program without a
\* proper main and with a clashing global fails with the main-function error.
C16_MainBeforeGlobals ==
    Loaded =>
        /\ err \in (IF Step1Defect THEN Step1Kinds
                    ELSE IF Step2Defect THEN Step2Kinds
                    ELSE IF MainDefect THEN MainKinds
                    ELSE IF GlobalDefect THEN GlobalKinds
                    ELSE {"none"})
        /\ (~ Step1Defect /\ ~ Step2Defect /\ MainDefect /\ GlobalClash)
              => err \in MainKinds

\* C16 amended: the load reports the error of the earliest failing step in
\* the order collect, literals and strings, globals, main; a program without a
\* proper main and with a clashing global fails with the global-variable error.
C16_GlobalsBeforeMain ==
    Loaded =>
        /\ err \in (IF Step1Defect THEN Step1Kinds
                    ELSE IF Step2Defect THEN Step2Kinds
                    ELSE IF GlobalDefect THEN GlobalKinds
                    ELSE IF MainDefect THEN MainKinds
                    ELSE {"none"})
        /\ (~ Step1Defect /\ ~ Step2Defect /\ MainDefect /\ GlobalClash)
              => err \in {"SameGlobalVariableNameError",
                          "GlobalVariableAndFunctionParameterWithSameNameError"}

C16_Witness ==
    /\ Loaded
    /\ ~ Step1Defect /\ ~ Step2Defect /\ MainDefect /\ GlobalClash
    /\ \A f \in 1..Len(ast.functions) : ast.functions[f].name # "main"
    /\ err = "SameGlobalVariableNameError"

\* The word a literal initialiser stands for.
InitialWord(literal) ==
    CASE literal.lit = "integer" ->
             IF literal.v < 0 THEN literal.v + Pow2(INT_NB_BITS) ELSE literal.v
      [] literal.lit = "keyword" -> IF literal.name = "TRUE" THEN 1 ELSE 0
      [] literal.lit = "string" -> read_only_strings_adress[literal.name]

GlobalAddress(i) == read_write_stack_limit + (i - 1)

\* After the load: a clash of names is refused, and a loaded program has its
\* i-th global at R + i with the word of its initialiser.
C17_AfterLoad ==
    Loaded =>
        /\ GlobalClash => err # "none"
        /\ err = "none" =>
              /\ global_variables = DeclaredGlobals
              /\ \A i \in 1..Len(ast.globals) :
                    memory[GlobalAddress(i)].w = InitialWord(ast.globals[i].value)

\* During the run: a read of a global by its name gives the word at its
\* address, in main and in the functions it calls, and that word changes only
\* by an assignment to that name.
C17_Step ==
    (ret.op # "none" /\ err = "none") =>
        \A i \in 1..Len(global_variables) :
            /\ LoadAtom(global_variables[i]) =>
                  /\ err' = "none"
                  /\ ret'.res = memory[GlobalAddress(i)].w
            /\ memory'[GlobalAddress(i)] # memory[GlobalAddress(i)] =>
                  /\ ret'.op = "affect"
                  /\ ret'.arg = global_variables[i]
                  /\ memory'[GlobalAddress(i)].w = ret'.res

\* C17: loading refuses a global named as another global or as a parameter of
\* a function; otherwise the i-th global is at R + i with the word of its
\* literal, and every function reads that word by the global's name until an
\* assignment to that name changes it.
C17_Globals == [] C17_AfterLoad /\ [][C17_Step]_vars

C17_Witness ==
    /\ err = "none"
    /\ Len(local_variables) = 2
    /\ global_variables = <<"g2", "g1">>
    /\ ret = [op |-> "atom", arg |-> "g1", res |-> 5]

\* The addresses a stored literal occupies, its NUL included.
Range(raw) ==
    read_only_strings_adress[raw]..
        (read_only_strings_adress[raw] + DecodedLength(raw))

\* C18: after a successful load each distinct string literal is stored once
\* in [1, R), its characters at consecutive addresses followed by one NUL,
\* the ranges of different literals are disjoint, every occurrence of a literal
\* evaluates to its start address, and R is 1 plus the sum over the distinct
\* literals of (decoded length + 1).
C18_StringsStored ==
    (ret.op # "none" /\ (Loaded => err = "none")) =>
        /\ DOMAIN read_only_strings_adress = StringLiterals
        /\ \A raw \in StringLiterals :
              /\ Range(raw) \subseteq 1..(read_write_stack_limit - 1)
              /\ \A k \in 1..DecodedLength(raw) :
                    memory[read_only_strings_adress[raw] + k - 1].w
                        = DecodedCodes(raw)[k]
              /\ memory[read_only_strings_adress[raw] + DecodedLength(raw)].w = 0
        /\ \A r1, r2 \in StringLiterals : r1 # r2 => Range(r1) \cap Range(r2) = {}
        /\ read_write_stack_limit = 1 + Footprint(StringLiterals)
        /\ ret.op = "string" => ret.res = read_only_strings_adress[ret.arg]

C18_Witness ==
    /\ err = "none"
    /\ read_write_stack_limit = 5
    /\ ret = [op |-> "string", arg |-> "b", res |-> 3]
    /\ memory[3].w = 98 /\ memory[4].w = 0

(***************************************************************************)
(* Claims on the host and the input channel (SpecHost).                    *)
(***************************************************************************)
RECURSIVE Flatten(_)
Flatten(lines) == IF lines = <<>> THEN <<>> ELSE Head(lines) \o Flatten(Tail(lines))

\* The input channel: the characters buffered, then the lines queued.
Channel == input_buffer \o Flatten(player._stdin_of_this_turn)

\* What is left of s after its n-th binary digit.
RECURSIVE AfterDigits(_, _)
AfterDigits(s, n) ==
    IF n = 0 \/ s = <<>> THEN s
    ELSE AfterDigits(Tail(s), IF Head(s) \in {"0", "1"} THEN n - 1 ELSE n)

\* C12: a READ that returns consumes exactly MAX_NB_BITS binary digits of
\* the channel, dropping the other characters met before the last of them,
\* leaves what follows queued, and returns the word of these digits.
C12_ReadConsumesOneWord ==
    [][(HostRead /\ err' = "none") =>
          /\ ret'.res \in 0..(Pow2(MAX_NB_BITS) - 1)
          /\ ret'.res = int(SubSeq(Kept01(Channel), 1, MAX_NB_BITS))
          /\ Channel' = AfterDigits(Channel, MAX_NB_BITS)]_vars

\* The digits of the channel do not make a word.
Starved == Len(Kept01(Channel)) < MAX_NB_BITS

\* The execution state of the program.
Execution ==
    <<read_write_stack_limit, global_variables, local_variables, memory_heap,
      memory, input_buffer, nb_elementary_operations>>

InfoSent(p, game_infos) ==
    \E i \in 1..Len(p._game_infos_of_this_turn) :
        p._game_infos_of_this_turn[i] = game_infos

RunLost(p) ==
    /\ p._ended /\ p._loose
    /\ p.pc = "idle"
    /\ p.returned = Returned("None", <<>>)

\* C13: a READ that needs more characters when the host's queue is empty
\* ends the run with the no-input message: get_output_line returns None, the
\* player has lost, and the program never executes a step again.
C13_NoInputEndsRun ==
    [][/\ (HostRead /\ Starved) =>
              /\ gens' = <<>>
              /\ RunLost(player')
              /\ InfoSent(player', NO_INPUT_MSG_ERROR)
       /\ gens = <<>> => /\ gens' = <<>>
                         /\ UNCHANGED Execution]_vars

C13_Witness ==
    /\ ret.op = "READ"
    /\ err = "IndexError"
    /\ gens = <<>>
    /\ RunLost(player)
    /\ InfoSent(player, NO_INPUT_MSG_ERROR)
    /\ player._stdin_of_this_turn = <<>>
    /\ nb_elementary_operations = 1

\* C14: a step that raises a runtime error ends the run for good: the
\* program never executes a step again, the host records the message of the
\* error, get_output_line returns None and the player has lost.
C14_RuntimeErrorEndsRun ==
    [][/\ (err = "none" /\ err' # "none") =>
              /\ gens' = <<>>
              /\ RunLost(player')
              /\ InfoSent(player', IF ret'.op = "READ" THEN NO_INPUT_MSG_ERROR
                                   ELSE IF ret'.op = "call" THEN "MemoryExceededError"
                                   ELSE err')
       /\ gens = <<>> => /\ gens' = <<>>
                         /\ UNCHANGED Execution]_vars


\* C35: the first call of get_output_line runs at most
\* FIRST_MAX_ELEMENTARY_OPERATIONS_TIMEOUT elementary operations and a later
\* call at most MAX_ELEMENTARY_OPERATIONS_TIMEOUT; each call counts from
\* zero, and no operation runs once the output of the call is not empty.
C35_OperationBudget ==
    [][/\ (player.pc = "idle" /\ player'.pc = "loop") =>
              /\ player'.iteration = 0
              /\ player'.result_out = <<>>
              /\ player'.timeout = IF player.calls = 0
                                   THEN FIRST_MAX_ELEMENTARY_OPERATIONS_TIMEOUT
                                   ELSE MAX_ELEMENTARY_OPERATIONS_TIMEOUT
       /\ nb_elementary_operations' # nb_elementary_operations =>
              /\ player.pc = "loop"
              /\ player.result_out = <<>>
              /\ player.iteration < player.timeout
              /\ nb_elementary_operations' = nb_elementary_operations + 1
              /\ player'.iteration = player.iteration + 1
              /\ player'.timeout = player.timeout
              /\ player'.calls = player.calls]_vars

\* The second call has run the last operation of its budget, the first call
\* having run more operations than the budget of a later call.
C35_Witness ==
    /\ player.calls = 2
    /\ player.pc = "idle"
    /\ player.iteration = MAX_ELEMENTARY_OPERATIONS_TIMEOUT
    /\ nb_elementary_operations
          = FIRST_MAX_ELEMENTARY_OPERATIONS_TIMEOUT + MAX_ELEMENTARY_OPERATIONS_TIMEOUT

\* The reasons get_output_line has to return None, at the end of a call:
\* nothing printed, an execution error, no input, or the end of the program.
NoLine(p, e, op) ==
    \/ p.result_out = <<>>
    \/ e \in ExecutionErrors
    \/ e = "IndexError"
    \/ op = "stop"

\* C36: get_output_line returns None and marks the player lost only when
\* the program printed nothing within the budget of the call, raised an
\* execution error, found no input or ended; when the program prints within
\* at most timeout operations of the call, the timeout-th included, the
\* output is returned and the player is not marked.
C36_OutputWithinBudget ==
    [][(player.pc = "loop" /\ player'.pc = "idle") =>
          /\ player'.returned.how = "None" => NoLine(player', err', ret'.op)
          /\ (player'._loose /\ ~player._loose) => NoLine(player', err', ret'.op)
          /\ (player'.result_out # <<>> /\ player'.iteration <= player'.timeout) =>
                /\ player'.returned = Returned("line", strip(player'.result_out))
                /\ player'._ended = player._ended
                /\ player'._loose = player._loose]_vars
(***************************************************************************)
(* Claims on the conversions (SpecConv).                                   *)
(***************************************************************************)
\* C23: for every word w, int_to_bin(bin_to_int(w)) = w, and for every
\* integer x in [-2^(w-1), 2^(w-1) - 1], bin_to_int(int_to_bin(x)) = x.
C23_RoundTrip ==
    [][ /\ ret'.op = "bin_to_int" =>
              /\ ret'.res \in InRange
              /\ int_to_bin(ret'.res) = ret'.arg
        /\ ret'.op = "int_to_bin" =>
              /\ ret'.res \in AnyWord
              /\ bin_to_int(ret'.res) = ret'.arg ]_vars

\* A negative integer went to its word, and a word of the upper half to its
\* negative integer.
C23_Witness ==
    \/ ret = Converted("int_to_bin", - Pow2(INT_NB_BITS - 1), Pow2(INT_NB_BITS - 1))
    \/ ret = Converted("bin_to_int", Pow2(INT_NB_BITS) - 1, -1)

\* C24: int_to_bin(x, overflow=True) is x modulo 2^w for every integer x,
\* hence a word, and 2^(w-1) is encoded as -2^(w-1) is.
C24_OverflowWraps ==
    [][ ret'.op = "int_to_bin_overflow" =>
          /\ ret'.res \in AnyWord
          /\ ret'.res = ret'.arg % Pow2(INT_NB_BITS)
          /\ ret'.arg = Pow2(INT_NB_BITS - 1) =>
                ret'.res = int_to_bin(- Pow2(INT_NB_BITS - 1)) ]_vars

\* An integer beyond 2^w on either side was encoded.
C24_Witness ==
    /\ ret.op = "int_to_bin_overflow"
    /\ \/ ret.arg > Pow2(INT_NB_BITS)
       \/ ret.arg < - Pow2(INT_NB_BITS)
       \/ ret.arg = Pow2(INT_NB_BITS - 1)

\* C25: decoding a word as a character succeeds for the words below
\* 2^CHAR_NB_BITS and raises WrongCharacterCodeError for every other word.
C25_CharDecoding ==
    [][ ret'.op = "bin_to_char" =>
          IF ret'.arg < Pow2(CHAR_NB_BITS)
          THEN err' = "none" /\ ret'.res = ret'.arg
          ELSE err' = "WrongCharacterCodeError" ]_vars

(***************************************************************************)
(* Claims on whole programs (SpecRun, SpecRunToEnd).                       *)
(***************************************************************************)
\* The run is over: main_function_iterator is exhausted.
Ended == sig.d = "end"

\* C21 as stated: run to completion, the program BreakPrintProgram has
\* written exactly "0123" to standard output.
C21_Prints0123 ==
    (functions_infos = BreakPrintProgram /\ Ended) => stdout = <<48, 49, 50, 51>>

\* C21 amended: the program BreakPrintProgram raises nothing, writes "012" one
\* character at a time and nothing else, and ends having written exactly "012".
C21_Prints012 ==
    /\ [] (functions_infos = BreakPrintProgram =>
              /\ err = "none"
              /\ IsPrefix(stdout, <<48, 49, 50>>)
              /\ Ended => stdout = <<48, 49, 50>>)
    /\ (functions_infos = BreakPrintProgram) ~> Ended

\* The run of BreakPrintProgram is over: "012" is written and i holds 3.
C21_Witness ==
    /\ functions_infos = BreakPrintProgram
    /\ Ended
    /\ stdout = <<48, 49, 50>>
    /\ memory[1] = W(3)
    /\ log = <<12, 12, 12, 11>>

RECURSIVE Factorial(_)
Factorial(n) == IF n <= 1 THEN 1 ELSE n * Factorial(n - 1)

\* The argument main gives fact.
FactArgument == CHOOSE n \in FactArguments : functions_infos = FactProgram(n)

\* The word for n!.
FactorialWord(n) == Factorial(n) % Pow2(INT_NB_BITS)

ForShape ==
    CHOOSE s \in (0..MaxIterations) \X (ForKinds \cup {"break"}) \X (0..MaxIterations) :
        functions_infos = ForProgram(s[1], s[2], s[3])

RECURSIVE Occurrences(_, _)
Occurrences(id, s) ==
    IF s = <<>> THEN 0
    ELSE (IF Head(s) = id THEN 1 ELSE 0) + Occurrences(id, Tail(s))

\* The elementary steps of a FOR itself up to the start of its iteration
\* number j + 1: 1 for the initialisation, 1 for the first test of the guard,
\* then 2 for the increment and 1 for the test after each iteration.
ForOwnSteps(j) == 1 + (j + 1) + 2 * j

\* The elementary steps of one whole iteration of the body: x = 1 is one,
\* IF(i == m), when it does not BREAK, two more.
BodySteps(kind) ==
    CASE kind = "empty" -> 0
      [] kind = "affect" -> 1
      [] kind = "continue" -> 0
      [] kind = "break" -> 3

\* The iterations a loop of bound n completes before it ends.
Completed(n, kind, m) == IF kind = "break" /\ m < n THEN m ELSE n

\* C30: a FOR whose body completes n iterations and that ends by its guard
\* gives, besides the steps of its body, 1 elementary step for the
\* initialisation, n + 1 for the tests of the guard and 2n for the
\* increments, the test and the first iteration coming after the
\* initialisation and each later iteration after 2 + 1 more steps; a FOR
\* ended by a BREAK gives no step after the BREAK.  Stated on the counter of
\* elementary operations when a statement starts.
C30_ForSteps ==
    [][ (functions_infos \in ForPrograms /\ log' # log) =>
          LET n == ForShape[1]
              kind == ForShape[2]
              m == ForShape[3]
              id == log'[Len(log')]
              j == Occurrences(id, log)
              c == Completed(n, kind, m)
              broken == kind = "break" /\ m < n
          IN  /\ nb_elementary_operations' = nb_elementary_operations
              /\ id \in {21, 23} =>
                    nb_elementary_operations =
                        ForOwnSteps(j) + j * BodySteps(kind)
                        + (IF kind = "break" THEN 2 ELSE 0)
              /\ id = 22 =>
                    nb_elementary_operations = ForOwnSteps(m) + m * BodySteps(kind) + 2
              /\ id = 24 =>
                    nb_elementary_operations =
                        ForOwnSteps(c) + c * BodySteps(kind) + (IF broken THEN 2 ELSE 0) ]_vars

\* A loop of MaxIterations iterations of x = 1 has ended by its guard and z = 1
\* has run; and a loop has been ended by a BREAK in its last iteration.
C30_Witness ==
    /\ Ended
    /\ \/ /\ functions_infos = ForProgram(MaxIterations, "affect", 0)
          /\ nb_elementary_operations = 1 + (MaxIterations + 1) + 2 * MaxIterations
                                        + MaxIterations + 1
       \/ /\ functions_infos = ForProgram(MaxIterations, "break", MaxIterations - 1)
          /\ log[Len(log) - 1] = 22

\* The call at generator sig.at has run its function to the end: the
\* iteration of _execute_call on execute_function is exhausted.
CallCompleted ==
    /\ err = "none"
    /\ sig.d = "fin"
    /\ sig.at >= 1
    /\ gens[sig.at].node.k = "call"
    /\ gens[sig.at].pc = "fn"

\* The addresses of the locals of the frames lv.
FrameCells(lv) ==
    {a \in DOMAIN memory :
        /\ a >= read_write_stack_limit + Len(global_variables)
        /\ a < read_write_stack_limit + Len(global_variables) + SumLen(lv)}

\* The call that starts is a call of a function of the program that is not
\* declared or that is declared with another number of parameters.
FatalCallStarts ==
    /\ Active("call")
    /\ sig.d = "run"
    /\ LET n == gens[sig.at].node
       IN  /\ n.name \notin {"PRINT", "MALLOC", "FREE", "ELEMENTARY_OPERATIONS"}
           /\ \/ ~ Declared(functions_infos, n.name)
              \/ Len(n.kids) # Len(Info(functions_infos, n.name).parameters)

\* C28: when a call of a user function is over, by RETURN or at the end of
\* the body, the stack of frames is the one of before the call and the words
\* of the locals of the frames of before the call are the ones of before the
\* call; a call of an undeclared function or with a wrong number of arguments
\* raises at once, with no frame pushed and no function started.
C28_FramesRestored ==
    /\ [](CallCompleted =>
            LET before == gens[sig.at].snap
            IN  /\ local_variables = before[1]
                /\ \A a \in FrameCells(before[1]) : memory[a] = before[2][a])
    /\ [][FatalCallStarts =>
            /\ err' = (IF Declared(functions_infos, gens[sig.at].node.name)
                       THEN "IncorrectNumberOfParametersInFunction"
                       ELSE "UndeclaredFunctionError")
            /\ local_variables' = local_variables
            /\ gens' = gens
            /\ memory' = memory]_vars

\* b = f(2) of a FrameProgram is over, f having ended by RETURN after it
\* wrote its own a, declared q and wrote the global: main still has the
\* frame <<a, b>> and its a is 1.
C28_Witness ==
    /\ functions_infos = FrameProgram("RETURN", "assigned")
    /\ CallCompleted
    /\ log = <<31, 32, 34, 35, 36, 37>>
    /\ local_variables = << <<"a", "b">> >>
    /\ memory[read_write_stack_limit] = W(int_to_bin(6))
    /\ memory[read_write_stack_limit + 1] = W(int_to_bin(1))
    /\ memory[read_write_stack_limit + 3] = W(int_to_bin(4))
    /\ memory[read_write_stack_limit + 4] = W(int_to_bin(5))

\* The plain assignment at generator sig.at starts; it has computed its
\* expression and writes; it is resumed after its own yield.
AffectStarts == Active("affect") /\ sig.d = "run"

AffectWrites == Active("affect") /\ sig.d = "fin"

AffectResumed == Active("affect") /\ sig.d = "down" /\ gens[sig.at].pc = "done"

\* No name is twice in a frame, and no global is in a frame.
DeclaredOnce ==
    \A f \in 1..Len(local_variables) :
        \A i \in 1..Len(local_variables[f]) :
            /\ ~ InSeq(local_variables[f][i], global_variables)
            /\ \A j \in 1..Len(local_variables[f]) :
                  local_variables[f][i] = local_variables[f][j] => i = j

\* C29: x = e leaves the frames as they are when x is a global or already a
\* local of the current frame, and else appends x to the current frame; the
\* declaration is no step (control goes from the start of the assignment to
\* e, memory and counter untouched); once e is computed the assignment writes
\* the word of e at the address of x (the global's cell for a global) and
\* yields one elementary item with no value, its only own item; a later read
\* of x in the frame gives that word.
C29_PlainAssignment ==
    /\ [][AffectStarts =>
            LET x == gens[sig.at].node.name
                top == Len(local_variables)
            IN  /\ local_variables' =
                      IF InSeq(x, global_variables) \/ InSeq(x, local_variables[top])
                      THEN local_variables
                      ELSE [local_variables EXCEPT ![top] = Append(@, x)]
                /\ memory' = memory
                /\ err' = "none" => sig'.d = "run" /\ sig'.at = sig.at + 1]_vars
    /\ [][AffectWrites =>
            LET x == gens[sig.at].node.name
                a == _get_variable_address(x, global_variables, local_variables,
                                           read_write_stack_limit)
            IN  /\ local_variables' = local_variables
                /\ a.err = "none"
                /\ InSeq(x, global_variables) =>
                      a.address < read_write_stack_limit + Len(global_variables)
                /\ err' = "none" =>
                      /\ memory' = [memory EXCEPT ![a.address] = gens[sig.at].acc]
                      /\ sig' = Sig("up", sig.at - 1, TRUE, None)]_vars
    /\ [][AffectResumed => sig'.d = "fin" /\ memory' = memory]_vars
    /\ []DeclaredOnce
    /\ [](functions_infos = AssignProgram /\ CallCompleted =>
            local_variables = << <<"x", "y">> >>)
    /\ [](functions_infos = AssignProgram /\ Ended =>
            /\ err = "none"
            /\ memory[read_write_stack_limit] = W(int_to_bin(7))
            /\ memory[read_write_stack_limit + 1] = W(int_to_bin(5))
            /\ memory[read_write_stack_limit + 2] = W(int_to_bin(5))
            /\ memory[read_write_stack_limit + 3] = W(int_to_bin(7))
            /\ nb_elementary_operations = 8)

\* AssignProgram has run to its end: the global was written twice, x of
\* main twice and read once, x of h twice.
C29_Witness ==
    /\ functions_infos = AssignProgram
    /\ Ended
    /\ log = <<41, 42, 43, 44, 45, 46, 47, 48>>
    /\ global_variables = <<"g">>
    /\ memory[read_write_stack_limit] = W(int_to_bin(7))

(***************************************************************************)
(* Two instances.                                                          *)
(***************************************************************************)
Words5(a, b, c, d, e) ==
    [x \in 1..(MEMORY_SIZE - 1) |->
        W(int_to_bin(IF x = 1 THEN a ELSE IF x = 2 THEN b ELSE IF x = 3 THEN c
                     ELSE IF x = 4 THEN d ELSE IF x = 5 THEN e ELSE 0))]

\* What each program of TwoPrograms gives when it is the only instance and
\* runs until it ends or raises.
AloneResult(fi) ==
    CASE fi = AssignProgram ->
            [log |-> <<41, 42, 43, 44, 45, 46, 47, 48>>, stdout |-> <<>>,
             nb_elementary_operations |-> 8, err |-> "none",
             memory |-> Words5(7, 5, 5, 7, 0)]
      [] fi = MixProgram ->
            [log |-> <<51, 52, 53, 54, 55>>, stdout |-> <<49>>,
             nb_elementary_operations |-> 16, err |-> "none",
             memory |-> Words5(2, 7, 0, 0, 0)]
      [] fi = FatalCall("h", 1) ->
            [log |-> <<31>>, stdout |-> <<>>,
             nb_elementary_operations |-> 1, err |-> "UndeclaredFunctionError",
             memory |-> Words5(2, 1, 0, 0, 0)]

Finished(e) == e.sig.d = "end" \/ e.err # "none"

\* The instance e is where a run of its program alone goes through, and once
\* it has ended or raised it has the results of that run.
AsAlone(e) ==
    LET alone == AloneResult(e.functions_infos)
    IN  /\ IsPrefix(e.log, alone.log)
        /\ IsPrefix(e.stdout, alone.stdout)
        /\ e.nb_elementary_operations <= alone.nb_elementary_operations
        /\ e.err \in {"none", alone.err}
        /\ e.input_buffer = <<>>
        /\ Finished(e) =>
              /\ e.log = alone.log
              /\ e.stdout = alone.stdout
              /\ e.nb_elementary_operations = alone.nb_elementary_operations
              /\ e.err = alone.err
              /\ e.memory = alone.memory
              /\ e.memory_heap = <<>>

ContinueShape ==
    CHOOSE s \in (0..MaxIfDepth) \X Whens \X LoopKinds \X OuterKinds :
        functions_infos = ContinueProgram(s[1], s[2], s[3], s[4])

\* The statements of a program of ContinuePrograms in the order the rule of
\* CONTINUE gives: the inner loop makes its two iterations, x = 1 (62) runs
\* in the iterations without CONTINUE (61) only, the outer loop goes on.
ContinueOrder(when, inner, outer) ==
    LET last == IF when = "always" THEN 61 ELSE 62
        in == IF inner = "FOR" THEN <<61, last>> ELSE <<66, 65, 61, 65, last>>
    IN  IF outer = "NONE" THEN in \o <<64>>
        ELSE IF outer = "FOR" THEN in \o <<63>> \o in \o <<63, 64>>
        ELSE in \o <<63, 67, 64>>

\* The address of j in main: the first local, or the second one after the
\* variable of an outer FOR.
ContinueCounter(outer) ==
    read_write_stack_limit + (IF outer = "FOR" THEN 1 ELSE 0)

\* C31: a CONTINUE ends the current iteration of the nearest enclosing loop
\* and nothing else: the statements after it in the body do not run in that
\* iteration, a FOR still increments its variable and tests its guard (so it
\* ends after end - start iterations even when every iteration executes
\* CONTINUE), a WHILE evaluates its condition again before the body restarts,
\* and an outer loop goes on.  Checked on every program of ContinuePrograms:
\* the statements start in the order above and the run ends with the loop
\* variable at 2.
C31_ContinueSkipsIteration ==
    /\ [](functions_infos \in ContinuePrograms =>
            LET order == ContinueOrder(ContinueShape[2], ContinueShape[3], ContinueShape[4])
            IN  /\ err = "none"
                /\ IsPrefix(log, order)
                /\ Ended =>
                      /\ log = order
                      /\ memory[ContinueCounter(ContinueShape[4])] = W(int_to_bin(2)))
    /\ (functions_infos \in ContinuePrograms ~> Ended)

\* A FOR inside a FOR whose body always executes CONTINUE under IFs has ended
\* both times after two iterations; and a WHILE whose first iteration only
\* executes CONTINUE has run x = 1 in its second one.
C31_Witness ==
    /\ Ended
    /\ \/ /\ functions_infos = ContinueProgram(MaxIfDepth, "always", "FOR", "FOR")
          /\ log = <<61, 61, 63, 61, 61, 63, 64>>
       \/ /\ functions_infos = ContinueProgram(1, "first", "WHILE", "NONE")
          /\ log = <<66, 65, 61, 65, 62, 64>>


\* The chain program that runs: its mode, the values of its conditions, its ELSE.
ChainShape ==
    CHOOSE s \in ConditionModes \X ChainConditions \X BOOLEAN :
        functions_infos = ChainProgram(s[1], s[2], s[3])

\* The first condition of conds that is true, Len(conds) + 1 when none is.
FirstTrue(conds) ==
    IF \E i \in 1..Len(conds) : conds[i]
    THEN CHOOSE i \in 1..Len(conds) : conds[i] /\ \A j \in 1..(i - 1) : ~conds[j]
    ELSE Len(conds) + 1

\* The conditions a chain has to evaluate: those up to the first true one.
ChainEvaluated(conds) ==
    IF FirstTrue(conds) <= Len(conds) THEN FirstTrue(conds) ELSE Len(conds)

\* The block a chain has to run: that of the first true condition, the ELSE
\* block when no condition is true, none when there is no ELSE either.
ChainBlock(conds, else) ==
    IF FirstTrue(conds) <= Len(conds) THEN <<80 + FirstTrue(conds)>>
    ELSE IF else THEN <<89>> ELSE <<>>

\* The statements a chain program has to execute, in order.
ChainOrder(mode, conds, else) ==
    (IF mode = "call" THEN [i \in 1..ChainEvaluated(conds) |-> 70 + i] ELSE <<>>)
    \o ChainBlock(conds, else) \o <<90>>

\* C32: an IF / ELIF / ELSE chain evaluates its conditions in source order up
\* to the first true one and no further, runs the block of that condition and
\* no other, runs the ELSE block when no condition is true, and each condition
\* it evaluates costs one elementary step besides the condition's own steps.
C32_IfChain ==
    functions_infos \in ChainPrograms =>
        LET mode == ChainShape[1]
            conds == ChainShape[2]
            else == ChainShape[3]
            order == ChainOrder(mode, conds, else)
        IN  /\ err = "none"
            /\ IsPrefix(log, order)
            /\ Ended =>
                  /\ log = order
                  /\ mode = "literal" =>
                        nb_elementary_operations
                            = ChainEvaluated(conds) + Len(ChainBlock(conds, else)) + 1

C32_Witness ==
    /\ Ended
    /\ \/ /\ functions_infos = ChainProgram("call", <<FALSE, TRUE, TRUE>>, TRUE)
          /\ log = <<71, 72, 82, 90>>
       \/ /\ functions_infos = ChainProgram("literal", <<FALSE, FALSE>>, TRUE)
          /\ log = <<89, 90>>
          /\ nb_elementary_operations = 4

\* The AND / OR program that runs: its mode, its operator, the values of L and R.
BoolShape ==
    CHOOSE s \in ConditionModes \X {"AND", "OR"} \X BOOLEAN \X BOOLEAN :
        functions_infos = BoolProgram(s[1], s[2], s[3], s[4])

\* R has to be evaluated: L true under AND, L false under OR.
NeedsRight(operator, l) == IF operator = "AND" THEN l ELSE ~l

\* The truth table of AND and OR.
BoolValue(operator, l, r) == IF operator = "AND" THEN l /\ r ELSE l \/ r

\* The statements an AND / OR program has to execute, in order.
BoolOrder(mode, operator, l) ==
    <<95>>
    \o (IF mode = "call" THEN <<71>> \o (IF NeedsRight(operator, l) THEN <<72>> ELSE <<>>)
        ELSE <<>>)
    \o <<96>>

\* The item an AND or an OR has just yielded is the one the executor holds.
BoolYielded ==
    /\ sig.d = "up"
    /\ Len(gens) > sig.at
    /\ gens[sig.at + 1].node.k = "boolexpr"
    /\ gens[sig.at + 1].pc = "done"

\* C33: L AND R evaluates R only when L is true and L OR R only when L is
\* false; a skipped R leaves no step and no effect; the operator adds one
\* elementary step, whose value is the boolean result.
C33_ShortCircuit ==
    functions_infos \in BoolPrograms =>
        LET mode == BoolShape[1]
            operator == BoolShape[2]
            l == BoolShape[3]
            r == BoolShape[4]
            order == BoolOrder(mode, operator, l)
            \* a literal costs no elementary step, a call of yes or no costs one
            operands == IF mode = "literal" THEN 0
                        ELSE IF NeedsRight(operator, l) THEN 2 ELSE 1
        IN  /\ err = "none"
            /\ IsPrefix(log, order)
            /\ BoolYielded =>
                  /\ sig.el
                  /\ sig.val = W(bool_to_bin(BoolValue(operator, l, r)))
                  /\ nb_elementary_operations = operands
            /\ Ended =>
                  /\ log = order
                  /\ memory[read_write_stack_limit] = W(bool_to_bin(BoolValue(operator, l, r)))
                  /\ nb_elementary_operations = operands + 3

C33_Witness ==
    /\ BoolYielded
    /\ \/ /\ functions_infos = BoolProgram("call", "AND", FALSE, TRUE)
          /\ log = <<95, 71>>
          /\ sig.val = W(0)
       \/ /\ functions_infos = BoolProgram("call", "OR", FALSE, TRUE)
          /\ log = <<95, 71, 72>>
          /\ sig.val = W(1)

\* The arithmetic program that runs: its operator and its two operands.
ArithShape ==
    LET operation == functions_infos[1].tree.kids[1].kids[1]
    IN  <<operation.name, operation.kids[1].v, operation.kids[2].v>>

\* The program that runs is one of the arithmetic programs.
ArithRuns ==
    /\ Len(functions_infos) = 1
    /\ functions_infos[1] = ArithProgram(ArithShape[1], ArithShape[2], ArithShape[3])[1]

\* The exact result of a + b, a - b and a * b.
Exact(operator, a, b) ==
    IF operator = "+" THEN a + b ELSE IF operator = "-" THEN a - b ELSE a * b

\* The item an arithmetic operator has just yielded is the one the executor holds.
ArithYielded ==
    /\ sig.d = "up"
    /\ Len(gens) > sig.at
    /\ gens[sig.at + 1].node.k \in BinaryRules
    /\ gens[sig.at + 1].pc = "done"

\* An arithmetic operator has its two operands and is about to compute.
ArithComputes ==
    /\ sig.d = "fin"
    /\ sig.at > 0
    /\ gens[sig.at].node.k \in BinaryRules
    /\ gens[sig.at].pc = "right"

\* C34: on any two words read as two's-complement integers, +, - and * yield
\* the word of the exact result modulo 2^INT_NB_BITS, and / and % by zero
\* raise MathDomainError and never emit the result step of the operator.
C34_IntegerArithmetic ==
    /\ [](ArithRuns =>
            LET operator == ArithShape[1]
                a == ArithShape[2]
                b == ArithShape[3]
                wraps == W(Exact(operator, a, b) % Pow2(INT_NB_BITS))
            IN  /\ operator \in {"+", "-", "*"} =>
                      /\ err = "none"
                      /\ ArithYielded => sig.el /\ sig.val = wraps
                      /\ Ended => memory[read_write_stack_limit] = wraps
                /\ (operator \in {"/", "%"} /\ b = 0) =>
                      /\ err \in {"none", "MathDomainError"}
                      /\ ~ArithYielded
                      /\ ~Ended
                      /\ nb_elementary_operations = 0
                      /\ memory[read_write_stack_limit] = W(0))
    /\ [][(ArithComputes /\ ArithShape[1] \in {"/", "%"} /\ ArithShape[3] = 0)
              => err' = "MathDomainError"]_vars

C34_Witness ==
    \/ /\ functions_infos = ArithProgram("*", - Pow2(INT_NB_BITS - 1), - Pow2(INT_NB_BITS - 1))
       /\ Ended
       /\ memory[read_write_stack_limit] = W(0)
    \/ /\ functions_infos = ArithProgram("+", Pow2(INT_NB_BITS - 1) - 1, 1)
       /\ Ended
       /\ memory[read_write_stack_limit] = W(Pow2(INT_NB_BITS - 1))
    \/ /\ functions_infos = ArithProgram("%", 1, 0)
       /\ err = "MathDomainError"
(***************************************************************************)
(* Claims on the addresses of the variables (SpecRun).                     *)
(***************************************************************************)
\* The address _get_variable_address gives the i-th global.
AddressOfGlobal(gv, lv, rwsl, i) == _get_variable_address(gv[i], gv, lv, rwsl)

\* The address _get_variable_address gives the j-th local of frame f when
\* this frame is the one of the function that runs.
AddressOfLocal(gv, lv, rwsl, f, j) ==
    _get_variable_address(lv[f][j], gv, SubSeq(lv, 1, f), rwsl)

\* The variables of a state: the globals <<0, i>> and the locals <<f, j>>.
VariablesOf(gv, lv) ==
    {<<0, i>> : i \in 1..Len(gv)}
    \cup UNION {{<<f, j>> : j \in 1..Len(lv[f])} : f \in 1..Len(lv)}

AddressOf(gv, lv, rwsl, x) ==
    IF x[1] = 0 THEN AddressOfGlobal(gv, lv, rwsl, x[2])
    ELSE AddressOfLocal(gv, lv, rwsl, x[1], x[2])

\* The frames a step keeps: all of them when it pushes a frame or declares a
\* local, those under the top when it pops the top.
KeptFrames ==
    1..(IF Len(local_variables') < Len(local_variables)
        THEN Len(local_variables') ELSE Len(local_variables))

\* C40: the addresses of the globals and of the locals of the active frames
\* are pairwise distinct and lie in [R, R + G + L), and the address of a
\* variable stays the same as long as its frame is active.
C40_StableAddresses ==
    /\ [](LET gv == global_variables
              lv == local_variables
              R == read_write_stack_limit
              all == VariablesOf(gv, lv)
          IN  /\ \A x \in all :
                    /\ AddressOf(gv, lv, R, x).err = "none"
                    /\ AddressOf(gv, lv, R, x).address >= R
                    /\ AddressOf(gv, lv, R, x).address < R + Len(gv) + SumLen(lv)
              /\ \A x \in all : \A y \in all :
                    x # y => AddressOf(gv, lv, R, x).address # AddressOf(gv, lv, R, y).address)
    /\ [][/\ \A i \in 1..Len(global_variables) :
                /\ i <= Len(global_variables')
                /\ global_variables'[i] = global_variables[i]
                /\ AddressOfGlobal(global_variables', local_variables',
                                 read_write_stack_limit', i)
                      = AddressOfGlobal(global_variables, local_variables,
                                      read_write_stack_limit, i)
          /\ \A f \in KeptFrames : \A j \in 1..Len(local_variables[f]) :
                /\ j <= Len(local_variables'[f])
                /\ local_variables'[f][j] = local_variables[f][j]
                /\ AddressOfLocal(global_variables', local_variables',
                                read_write_stack_limit', f, j)
                      = AddressOfLocal(global_variables, local_variables,
                                     read_write_stack_limit, f, j)]_vars

\* h runs with its own x above the global g and main's x and y: three frames'
\* worth of variables, and g has been assigned without being declared again.
C40_Witness ==
    /\ functions_infos = AssignProgram
    /\ global_variables = <<"g">>
    /\ local_variables = << <<"x", "y">>, <<"x">> >>
    /\ AddressOfLocal(global_variables, local_variables, read_write_stack_limit, 2, 1).address
          = read_write_stack_limit + 3
    /\ log = <<41, 42, 43, 44, 45, 46, 47, 48>>

(***************************************************************************)
(* Claims on a match (SpecGame).                                           *)
(***************************************************************************)
InMatch == game.pc # "none"

\* Referee.play has left its loop, by its break or by an exception.
LoopLeft == game.pc \in {"over", "raised"}

\* C37: every match ends: Referee.play leaves its loop no later than the
\* end of turn LAST_TURN + 1, and every player has ended when it does.
C37_MatchEnds ==
    InMatch =>
        /\ ~LoopLeft => game.turn <= LAST_TURN + 1
        /\ LoopLeft => /\ game.turn <= LAST_TURN + 2
                       /\ Playing(game.players) = {}

\* The outcome of a player: is_playing, score, has_lost.
Outcome(p) == <<is_playing(p), p._score, p._loose>>

\* C38: a player that has ended keeps its outcome: is_playing stays false
\* and its score and has_lost do not change; a player that lost has score
\* -1 and never becomes a winner, a winner never becomes a loser.
C38_OutcomeIsFinal ==
    /\ [](InMatch =>
            \A i \in 1..Len(game.players) :
                LET p == game.players[i]
                IN  /\ p._loose => (p._ended /\ p._score = -1)
                    /\ (p._ended /\ ~p._loose) => p._score = game.scores[i])
    /\ [][InMatch =>
            \A i \in 1..Len(game.players) :
                game.players[i]._ended =>
                    Outcome(game'.players[i]) = Outcome(game.players[i])]_vars

\* The last turn is over: a player that lost in an earlier turn is still a
\* loser, and the player that was left has won with its points.
C38_Witness ==
    /\ game.pc = "over"
    /\ game.turn = LAST_TURN + 2
    /\ \E i \in 1..MaxPlayers, j \in 1..MaxPlayers :
          /\ game.players[i]._loose
          /\ game.players[i].valid_program
          /\ game._last_turns[i] < LAST_TURN
          /\ game.players[j]._ended /\ ~game.players[j]._loose
          /\ game.players[j]._score = WIN_SCORE

\* get_output_line is called for player i: every step that leaves the call
\* site of read_output_from_players is a call for game.player.
Called(i) == game.pc = "read" /\ game.player = i /\ game' # game

\* C39: get_output_line is never called for a player that has ended, and a
\* player whose program is not valid has lost before the first turn and its
\* program is never run.
C39_EndedPlayerNotRun ==
    /\ [](InMatch =>
            \A i \in 1..Len(game.players) :
                ~game.players[i].valid_program =>
                    /\ game.players[i]._ended /\ game.players[i]._loose
                    /\ ~game.players[i].run)
    /\ [][InMatch =>
            \A i \in 1..Len(game.players) :
                Called(i) => is_playing(game.players[i])]_vars
====
